---- MODULE Spec2Model ----
(***************************************************************************)
(* Model of the plant monitor's sensor layer: the three device drivers     *)
(* (aht10.c, ds18b20.c, gy302.c), the sensor registry                      *)
(* (sensor_interface.c), the batch health scorer and the monitoring loop   *)
(* (main.cpp), and the two-sensor monitor of plant_monitor.c.              *)
(*                                                                         *)
(* Numbers.  The C code computes in float; the model computes the same     *)
(* quantities exactly, in fixed point:                                     *)
(*   temperature  in units of 2^-17 degree C   (TempUnit  per degree)      *)
(*   humidity     in units of 2^-18 percent    (HumUnit   per percent)     *)
(*   lux          in units of 1/6 lux          (LuxUnit   per lux)         *)
(* so that raw*200/2^20-50, raw*100/2^20, raw*0.0625 and raw/1.2 are all   *)
(* integers.  A health score is kept as the pair (total, count) of the     *)
(* division total/count the code performs.                                 *)
(*                                                                         *)
(* Specifications.  Spec: the registry API.  SpecDrivers: the drivers'     *)
(* API.  SpecHealth: calculate_plant_health on batches.  SpecMonitor: the  *)
(* two poll loops.  SpecReply: the handling of an AHT10 reply by the       *)
(* driver and by the monitor.  SpecScore: the two scorers on hand-made     *)
(* inputs.  SpecSettings: the probe's resolution and the light sensor's    *)
(* mode being set and read back.                                           *)
(***************************************************************************)
EXTENDS Integers, Sequences, FiniteSets, TLC

VARIABLES
    world,           \* the physical devices: how each answers on its bus
    app_config,      \* the sensor_interface_config_t the application passes to init
    g_config,        \* sensor_interface.c: g_config.sensors[0 .. sensor_count-1]
    g_initialized,   \* sensor_interface.c: g_initialized
    drv,             \* the drivers' file-scope globals and the I2C_NUM_0 driver slot
    bus,             \* bus operations issued by the last call, in order
    op,              \* the last call made
    ret,             \* its return value
    readings,        \* the caller's sensor_reading_t buffer
    out,             \* other out-parameters of the last call
    plant_health,    \* main.cpp: static plant_health_t plant_health
    g_state          \* plant_monitor.c: static plant_monitor_state_t g_state

vars == <<world, app_config, g_config, g_initialized, drv, bus, op, ret,
          readings, out, plant_health, g_state>>

----------------------------------------------------------------------------
(* Bounds of the model *)

MaxSensors == 3          \* longest configured sensor list explored
MaxBatch == 2            \* longest batch handed to the scorer on its own

----------------------------------------------------------------------------
(* esp_err_t *)

ESP_OK == 0
ESP_FAIL == 0 - 1
ESP_ERR_INVALID_ARG == 258
ESP_ERR_INVALID_STATE == 259
ESP_ERR_NOT_FOUND == 261
ESP_ERR_TIMEOUT == 263
ESP_ERR_INVALID_RESPONSE == 264

(* fixed-point units *)
TempUnit == 131072
HumUnit == 262144
LuxUnit == 6

(* sensor_type_t as the registry's switch uses it; DHT11 has no case *)
SENSOR_TYPE_AHT10 == "AHT10"
SENSOR_TYPE_DS18B20 == "DS18B20"
SENSOR_TYPE_GY302 == "GY302"
SENSOR_TYPE_SOIL_MOISTURE == "SOIL_MOISTURE"
SENSOR_TYPE_LIGHT == "LIGHT"
SENSOR_TYPE_DHT11 == "DHT11"

SensorTypes == {SENSOR_TYPE_AHT10, SENSOR_TYPE_DS18B20, SENSOR_TYPE_GY302,
                SENSOR_TYPE_SOIL_MOISTURE, SENSOR_TYPE_LIGHT, SENSOR_TYPE_DHT11}

(* command bytes *)
(* the devices wired to the I2C bus, by address *)
AHT10_I2C_ADDR == 56
PLANT_MONITOR_AHT10_ADDR_2 == 57
GY302_I2C_ADDR == 35

AHT10_CMD_INIT == 225
AHT10_CMD_MEASURE == 172
AHT10_CMD_SOFT_RESET == 186
AHT10_STATUS_BUSY == 128
AHT10_STATUS_CAL == 8

DS18B20_CMD_CONVERT_TEMP == 68
DS18B20_CMD_READ_SCRATCHPAD == 190
DS18B20_CMD_WRITE_SCRATCHPAD == 78
DS18B20_CMD_COPY_SCRATCHPAD == 72
DS18B20_CMD_SKIP_ROM == 204

GY302_CMD_POWER_DOWN == 0
GY302_CMD_POWER_ON == 1
GY302_CMD_RESET == 7
GY302_MODE_CONT_H == 16
GY302_MODE_CONT_H2 == 17
GY302_MODE_CONT_L == 19
GY302_MODE_ONE_H == 32
GY302_MODE_ONE_H2 == 33
GY302_MODE_ONE_L == 35

----------------------------------------------------------------------------
(* Bit helpers on bytes *)

BitSet(b, mask) == (b \div mask) % 2 = 1

RECURSIVE Xor(_, _, _)
Xor(a, b, n) ==
    IF n = 0 THEN 0
    ELSE ((a + b) % 2) + 2 * Xor(a \div 2, b \div 2, n - 1)

Xor8(a, b) == Xor(a, b, 8)

----------------------------------------------------------------------------
(* The drivers' globals.  c is the context a call runs in:                 *)
(*   c.drv  the globals, c.bus the operations issued so far,               *)
(*   c.env  the devices as they will answer during this call.              *)

DrvInit ==
    [i2c_installed |-> FALSE,
     aht10_initialized |-> FALSE, aht10_address |-> 0, aht10_enabled |-> FALSE,
     ds18b20_initialized |-> FALSE, onewire_pin |-> 0,
     gy302_initialized |-> FALSE, i2c_address |-> 0, current_mode |-> 0]

(* i2c_master_cmd_begin on I2C_NUM_0: fails without touching the bus when  *)
(* no driver is installed, otherwise the addressed device answers with the *)
(* next code of its script (ESP_OK once the script is used up).            *)
i2c_master_cmd_begin(c, dev, entry) ==
    IF ~c.drv.i2c_installed
    THEN [c |-> c, ret |-> ESP_ERR_INVALID_STATE]
    ELSE LET s == c.env[dev].script
         IN [c |-> [c EXCEPT !.bus = Append(@, entry),
                             !.env[dev].script = IF s = <<>> THEN s ELSE Tail(s)],
             ret |-> IF s = <<>> THEN ESP_OK ELSE Head(s)]

(* i2c_param_config + i2c_driver_install, an already installed driver      *)
(* (ESP_ERR_INVALID_STATE) being accepted.                                 *)
i2c_master_init(c) ==
    [c |-> [c EXCEPT !.drv.i2c_installed = TRUE], ret |-> ESP_OK]

(* vTaskDelay(pdMS_TO_TICKS(ms)): the wait is recorded with the bus traffic *)
vTaskDelay(c, ms) == [c EXCEPT !.bus = Append(@, <<"delay_ms", ms>>)]

----------------------------------------------------------------------------
(* aht10.c *)

(* the AHT10 that answers at an address *)
Aht10At(address) == IF address = PLANT_MONITOR_AHT10_ADDR_2 THEN "aht2" ELSE "aht"

(* What the device puts on the bus when read: status byte, then 5 data bytes *)
Aht10Reply(dev) ==
    <<(IF dev.busy THEN AHT10_STATUS_BUSY ELSE 0)
        + (IF dev.cal THEN AHT10_STATUS_CAL ELSE 0) + dev.other>> \o dev.data

aht10_write_cmd(c, cmd, data) ==
    IF ~c.drv.aht10_initialized
    THEN [c |-> c, ret |-> ESP_ERR_INVALID_STATE]
    ELSE LET dev == Aht10At(c.drv.aht10_address)
             t == i2c_master_cmd_begin(c, dev,
                      <<"i2c_write", c.drv.aht10_address, <<cmd>> \o data>>)
         IN IF t.ret = ESP_OK /\ cmd = AHT10_CMD_INIT
            THEN [c |-> [t.c EXCEPT !.env[dev].cal = t.c.env[dev].calibratable],
                  ret |-> t.ret]
            ELSE t

aht10_read_data(c, data_len) ==
    IF ~c.drv.aht10_initialized \/ data_len = 0
    THEN [c |-> c, ret |-> ESP_ERR_INVALID_ARG, data |-> <<>>]
    ELSE LET dev == Aht10At(c.drv.aht10_address)
             t == i2c_master_cmd_begin(c, dev,
                      <<"i2c_read", c.drv.aht10_address, data_len>>)
         IN [c |-> t.c, ret |-> t.ret,
             data |-> IF t.ret = ESP_OK
                      THEN SubSeq(Aht10Reply(c.env[dev]), 1, data_len)
                      ELSE <<>>]

aht10_is_calibrated(c) ==
    IF ~c.drv.aht10_initialized
    THEN [c |-> c, ret |-> ESP_ERR_INVALID_ARG, calibrated |-> FALSE]
    ELSE LET r == aht10_read_data(c, 1)
         IN IF r.ret # ESP_OK
            THEN [c |-> r.c, ret |-> r.ret, calibrated |-> FALSE]
            ELSE [c |-> r.c, ret |-> ESP_OK,
                  calibrated |-> BitSet(r.data[1], AHT10_STATUS_CAL)]

aht10_calibrate(c) ==
    IF ~c.drv.aht10_initialized
    THEN [c |-> c, ret |-> ESP_ERR_INVALID_STATE]
    ELSE LET w == aht10_write_cmd(c, AHT10_CMD_INIT, <<8, 0>>)
         IN IF w.ret # ESP_OK THEN w
            ELSE LET k == aht10_is_calibrated(vTaskDelay(w.c, 10))
                 IN IF k.ret # ESP_OK THEN [c |-> k.c, ret |-> k.ret]
                    ELSE IF k.calibrated THEN [c |-> k.c, ret |-> ESP_OK]
                    ELSE [c |-> k.c, ret |-> ESP_ERR_INVALID_STATE]

aht10_init(c, config) ==
    LET c1 == [c EXCEPT !.drv.aht10_address = config.address,
                        !.drv.aht10_enabled = config.enabled]
    IN IF ~config.enabled THEN [c |-> c1, ret |-> ESP_OK]
       ELSE LET w == aht10_write_cmd(vTaskDelay(c1, 40), AHT10_CMD_SOFT_RESET, <<>>)
            IN IF w.ret # ESP_OK THEN w
               ELSE LET k == aht10_is_calibrated(vTaskDelay(w.c, 20))
                    IN IF k.ret # ESP_OK THEN [c |-> k.c, ret |-> k.ret]
                       ELSE LET q == IF ~k.calibrated
                                     THEN aht10_calibrate(k.c)
                                     ELSE [c |-> k.c, ret |-> ESP_OK]
                            IN IF q.ret # ESP_OK THEN q
                               ELSE [c |-> [q.c EXCEPT !.drv.aht10_initialized = TRUE],
                                     ret |-> ESP_OK]

Aht10Zero == [temperature |-> 0, humidity |-> 0, valid |-> FALSE, error |-> ESP_OK]

(* aht10_read's handling of the reply with the calibration bit tested first *)
aht10_read_reply_cal_first(data) ==
    IF ~BitSet(data[1], AHT10_STATUS_CAL)
    THEN [ret |-> ESP_ERR_INVALID_STATE,
          reading |-> [Aht10Zero EXCEPT !.error = ESP_ERR_INVALID_STATE]]
    ELSE IF BitSet(data[1], AHT10_STATUS_BUSY)
    THEN [ret |-> ESP_ERR_TIMEOUT,
          reading |-> [Aht10Zero EXCEPT !.error = ESP_ERR_TIMEOUT]]
    ELSE LET humidity == (data[2] * 4096 + data[3] * 16 + (data[4] \div 16)) * 25
             temperature == ((data[4] % 16) * 65536 + data[5] * 256 + data[6]) * 25
                            - 50 * TempUnit
         IN [ret |-> ESP_OK,
             reading |-> [temperature |-> temperature, humidity |-> humidity,
                          valid |-> TRUE, error |-> ESP_OK]]

(* the same with bytes 1..3 taken whole as the humidity and nothing checked *)
aht10_read_reply_unchecked(data) ==
    IF BitSet(data[1], AHT10_STATUS_BUSY)
    THEN [ret |-> ESP_ERR_TIMEOUT,
          reading |-> [Aht10Zero EXCEPT !.error = ESP_ERR_TIMEOUT]]
    ELSE IF ~BitSet(data[1], AHT10_STATUS_CAL)
    THEN [ret |-> ESP_ERR_INVALID_STATE,
          reading |-> [Aht10Zero EXCEPT !.error = ESP_ERR_INVALID_STATE]]
    ELSE LET humidity == (data[2] * 65536 + data[3] * 256 + data[4]) * 25
             temperature == ((data[4] % 16) * 65536 + data[5] * 256 + data[6]) * 25
                            - 50 * TempUnit
         IN [ret |-> ESP_OK,
             reading |-> [temperature |-> temperature, humidity |-> humidity,
                          valid |-> TRUE, error |-> ESP_OK]]

(* the same with the temperature taken from the high nibble of byte 3 *)
aht10_read_reply_high_nibble(data) ==
    IF BitSet(data[1], AHT10_STATUS_BUSY)
    THEN [ret |-> ESP_ERR_TIMEOUT,
          reading |-> [Aht10Zero EXCEPT !.error = ESP_ERR_TIMEOUT]]
    ELSE IF ~BitSet(data[1], AHT10_STATUS_CAL)
    THEN [ret |-> ESP_ERR_INVALID_STATE,
          reading |-> [Aht10Zero EXCEPT !.error = ESP_ERR_INVALID_STATE]]
    ELSE LET humidity == (data[2] * 4096 + data[3] * 16 + (data[4] \div 16)) * 25
             temperature == ((data[4] \div 16) * 65536 + data[5] * 256 + data[6]) * 25
                            - 50 * TempUnit
             ok == /\ humidity >= 0 /\ humidity <= 100 * HumUnit
                   /\ temperature >= (0 - 50) * TempUnit
                   /\ temperature <= 150 * TempUnit
             err == IF ok THEN ESP_OK ELSE ESP_ERR_INVALID_RESPONSE
         IN [ret |-> err,
             reading |-> [temperature |-> temperature, humidity |-> humidity,
                          valid |-> ok, error |-> err]]

(* What aht10_read makes of the 6 bytes it has read: the status byte is     *)
(* tested for busy, then for calibrated, then the two 20-bit values are     *)
(* converted and checked against the ranges of the device.                  *)
aht10_read_reply(data) ==
    IF BitSet(data[1], AHT10_STATUS_BUSY)
    THEN [ret |-> ESP_ERR_TIMEOUT,
          reading |-> [Aht10Zero EXCEPT !.error = ESP_ERR_TIMEOUT]]
    ELSE IF ~BitSet(data[1], AHT10_STATUS_CAL)
    THEN [ret |-> ESP_ERR_INVALID_STATE,
          reading |-> [Aht10Zero EXCEPT !.error = ESP_ERR_INVALID_STATE]]
    ELSE LET humidity_raw == data[2] * 4096 + data[3] * 16 + (data[4] \div 16)
             temp_raw == (data[4] % 16) * 65536 + data[5] * 256 + data[6]
             humidity == humidity_raw * 25
             temperature == temp_raw * 25 - 50 * TempUnit
             ok == /\ humidity >= 0 /\ humidity <= 100 * HumUnit
                   /\ temperature >= (0 - 50) * TempUnit
                   /\ temperature <= 150 * TempUnit
             err == IF ok THEN ESP_OK ELSE ESP_ERR_INVALID_RESPONSE
         IN [ret |-> err,
             reading |-> [temperature |-> temperature, humidity |-> humidity,
                          valid |-> ok, error |-> err]]

(* reading is the caller's aht10_reading_t, left untouched on the first exit *)
aht10_read(c, reading) ==
    IF ~c.drv.aht10_initialized
    THEN [c |-> c, ret |-> ESP_ERR_INVALID_ARG, reading |-> reading]
    ELSE LET w == aht10_write_cmd(c, AHT10_CMD_MEASURE, <<51, 0>>)
         IN IF w.ret # ESP_OK
            THEN [c |-> w.c, ret |-> w.ret,
                  reading |-> [Aht10Zero EXCEPT !.error = w.ret]]
            ELSE LET r == aht10_read_data(vTaskDelay(w.c, 80), 6)
                 IN IF r.ret # ESP_OK
                    THEN [c |-> r.c, ret |-> r.ret,
                          reading |-> [Aht10Zero EXCEPT !.error = r.ret]]
                    ELSE [c |-> r.c] @@ aht10_read_reply(r.data)

aht10_deinit(c) ==
    IF ~c.drv.aht10_initialized THEN [c |-> c, ret |-> ESP_OK]
    ELSE [c |-> [c EXCEPT !.drv.aht10_initialized = FALSE], ret |-> ESP_OK]

----------------------------------------------------------------------------
(* ds18b20.c *)

(* The device side of the line.  presence is the script of the presence    *)
(* pulses of the coming resets (present once the script is used up), rpos  *)
(* the next scratchpad byte a read slot returns, wpos the next scratchpad  *)
(* register a written byte goes to.                                        *)
onewire_init_gpio(c, pin) == [c |-> c, ret |-> ESP_OK]

onewire_reset(c) ==
    LET s == c.env.ds.presence
        present == IF s = <<>> THEN TRUE ELSE Head(s)
    IN [c |-> [c EXCEPT !.bus = Append(@, <<"ow_reset", c.drv.onewire_pin>>),
                        !.env.ds.presence = IF s = <<>> THEN s ELSE Tail(s),
                        !.env.ds.rpos = 0,
                        !.env.ds.wpos = 0],
        ret |-> IF present THEN ESP_OK ELSE ESP_ERR_NOT_FOUND]

onewire_write_byte(c, byte) ==
    LET d == c.env.ds
        d1 == IF d.wpos \in 1..3
              THEN [d EXCEPT !.scratchpad[2 + d.wpos] = byte,
                             !.wpos = IF d.wpos = 3 THEN 0 ELSE d.wpos + 1]
              ELSE IF byte = DS18B20_CMD_READ_SCRATCHPAD THEN [d EXCEPT !.rpos = 1]
              ELSE IF byte = DS18B20_CMD_WRITE_SCRATCHPAD THEN [d EXCEPT !.wpos = 1]
              ELSE d
    IN [c EXCEPT !.bus = Append(@, <<"ow_write", byte>>), !.env.ds = d1]

onewire_read_byte(c) ==
    LET d == c.env.ds
    IN [c |-> [c EXCEPT !.bus = Append(@, <<"ow_read">>),
                        !.env.ds.rpos = IF d.rpos \in 1..9 THEN d.rpos + 1 ELSE d.rpos],
        byte |-> IF d.rpos \in 1..9 THEN d.scratchpad[d.rpos] ELSE 255]

RECURSIVE onewire_read_bytes(_, _)
onewire_read_bytes(c, n) ==
    IF n = 0 THEN [c |-> c, bytes |-> <<>>]
    ELSE LET r == onewire_read_byte(c)
             rest == onewire_read_bytes(r.c, n - 1)
         IN [c |-> rest.c, bytes |-> <<r.byte>> \o rest.bytes]

(* ds18b20_init with the answer to its reset pulse ignored *)
ds18b20_init_ignores_presence(c, config) ==
    IF c.drv.ds18b20_initialized THEN [c |-> c, ret |-> ESP_OK]
    ELSE LET c1 == [c EXCEPT !.drv.onewire_pin = config.pin]
             r == onewire_reset(onewire_init_gpio(c1, config.pin).c)
         IN [c |-> [r.c EXCEPT !.drv.ds18b20_initialized = TRUE], ret |-> ESP_OK]

ds18b20_init(c, config) ==
    IF c.drv.ds18b20_initialized THEN [c |-> c, ret |-> ESP_OK]
    ELSE LET c1 == [c EXCEPT !.drv.onewire_pin = config.pin]
             g == onewire_init_gpio(c1, config.pin)
         IN IF g.ret # ESP_OK THEN g
            ELSE LET r == onewire_reset(g.c)
                 IN IF r.ret # ESP_OK THEN r
                    ELSE [c |-> [r.c EXCEPT !.drv.ds18b20_initialized = TRUE],
                          ret |-> ESP_OK]

(* the integrity test ds18b20_read applies to the 9 bytes it has read *)
ScratchpadRejected(scratchpad) == scratchpad[9] # 0

Int16(v) == IF v >= 32768 THEN v - 65536 ELSE v

(* ds18b20_read going on to the scratchpad whatever the second reset finds *)
ds18b20_read_ignores_second_presence(c, reading) ==
    IF ~c.drv.ds18b20_initialized
    THEN [c |-> c, ret |-> ESP_ERR_INVALID_STATE,
          reading |-> [reading EXCEPT !.valid = FALSE, !.error = ESP_ERR_INVALID_STATE]]
    ELSE LET r1 == onewire_reset(c)
         IN IF r1.ret # ESP_OK
            THEN [c |-> r1.c, ret |-> r1.ret,
                  reading |-> [reading EXCEPT !.valid = FALSE, !.error = r1.ret]]
            ELSE LET c2 == onewire_write_byte(
                               onewire_write_byte(r1.c, DS18B20_CMD_SKIP_ROM),
                               DS18B20_CMD_CONVERT_TEMP)
                     r2 == onewire_reset(vTaskDelay(c2, 750))
                     c4 == onewire_write_byte(
                               onewire_write_byte(r2.c, DS18B20_CMD_SKIP_ROM),
                               DS18B20_CMD_READ_SCRATCHPAD)
                     rd == onewire_read_bytes(c4, 9)
                 IN [c |-> rd.c, ret |-> ESP_OK,
                     reading |-> [temperature |->
                                      Int16(rd.bytes[2] * 256 + rd.bytes[1]) * (TempUnit \div 16),
                                  valid |-> TRUE, error |-> ESP_OK]]

(* reading is the caller's ds18b20_reading_t; its temperature is written   *)
(* only on the success path                                                *)
ds18b20_read(c, reading) ==
    IF ~c.drv.ds18b20_initialized
    THEN [c |-> c, ret |-> ESP_ERR_INVALID_STATE,
          reading |-> [reading EXCEPT !.valid = FALSE, !.error = ESP_ERR_INVALID_STATE]]
    ELSE LET r1 == onewire_reset(c)
         IN IF r1.ret # ESP_OK
            THEN [c |-> r1.c, ret |-> r1.ret,
                  reading |-> [reading EXCEPT !.valid = FALSE, !.error = r1.ret]]
            ELSE LET c2 == onewire_write_byte(
                               onewire_write_byte(r1.c, DS18B20_CMD_SKIP_ROM),
                               DS18B20_CMD_CONVERT_TEMP)
                     c3 == vTaskDelay(c2, 750)
                     r2 == onewire_reset(c3)
                 IN IF r2.ret # ESP_OK
                    THEN [c |-> r2.c, ret |-> r2.ret,
                          reading |-> [reading EXCEPT !.valid = FALSE, !.error = r2.ret]]
                    ELSE LET c4 == onewire_write_byte(
                                       onewire_write_byte(r2.c, DS18B20_CMD_SKIP_ROM),
                                       DS18B20_CMD_READ_SCRATCHPAD)
                             rd == onewire_read_bytes(c4, 9)
                             scratchpad == rd.bytes
                         IN IF ScratchpadRejected(scratchpad)
                            THEN [c |-> rd.c, ret |-> ESP_ERR_INVALID_RESPONSE,
                                  reading |-> [reading EXCEPT
                                                 !.valid = FALSE,
                                                 !.error = ESP_ERR_INVALID_RESPONSE]]
                            ELSE LET raw_temp == Int16(scratchpad[2] * 256 + scratchpad[1])
                                 IN [c |-> rd.c, ret |-> ESP_OK,
                                     reading |-> [temperature |-> raw_temp * (TempUnit \div 16),
                                                  valid |-> TRUE,
                                                  error |-> ESP_OK]]

(* the configuration byte written as the bare number of bits *)
ds18b20_set_resolution_unshifted(c, resolution) ==
    IF resolution < 9 \/ resolution > 12 THEN [c |-> c, ret |-> ESP_ERR_INVALID_ARG]
    ELSE IF ~c.drv.ds18b20_initialized THEN [c |-> c, ret |-> ESP_ERR_INVALID_STATE]
    ELSE LET r1 == onewire_reset(c)
         IN IF r1.ret # ESP_OK THEN r1
            ELSE LET c2 == onewire_write_byte(
                               onewire_write_byte(r1.c, DS18B20_CMD_SKIP_ROM),
                               DS18B20_CMD_WRITE_SCRATCHPAD)
                     c3 == onewire_write_byte(
                               onewire_write_byte(onewire_write_byte(c2, 0), 0),
                               resolution)
                     r2 == onewire_reset(c3)
                 IN IF r2.ret # ESP_OK THEN r2
                    ELSE [c |-> vTaskDelay(
                                    onewire_write_byte(
                                        onewire_write_byte(r2.c, DS18B20_CMD_SKIP_ROM),
                                        DS18B20_CMD_COPY_SCRATCHPAD),
                                    10),
                          ret |-> ESP_OK]

ds18b20_set_resolution(c, resolution) ==
    IF resolution < 9 \/ resolution > 12 THEN [c |-> c, ret |-> ESP_ERR_INVALID_ARG]
    ELSE IF ~c.drv.ds18b20_initialized THEN [c |-> c, ret |-> ESP_ERR_INVALID_STATE]
    ELSE LET r1 == onewire_reset(c)
         IN IF r1.ret # ESP_OK THEN r1
            ELSE LET c2 == onewire_write_byte(
                               onewire_write_byte(r1.c, DS18B20_CMD_SKIP_ROM),
                               DS18B20_CMD_WRITE_SCRATCHPAD)
                     c3 == onewire_write_byte(
                               onewire_write_byte(onewire_write_byte(c2, 0), 0),
                               ((resolution - 9) * 32) % 256)
                     r2 == onewire_reset(c3)
                 IN IF r2.ret # ESP_OK THEN r2
                    ELSE [c |-> vTaskDelay(
                                    onewire_write_byte(
                                        onewire_write_byte(r2.c, DS18B20_CMD_SKIP_ROM),
                                        DS18B20_CMD_COPY_SCRATCHPAD),
                                    10),
                          ret |-> ESP_OK]

(* resolution is the caller's uint8_t, written only on the success path;   *)
(* the byte decoded is the first one the device sends after READ SCRATCHPAD *)
ds18b20_get_resolution(c, resolution) ==
    IF ~c.drv.ds18b20_initialized
    THEN [c |-> c, ret |-> ESP_ERR_INVALID_STATE, resolution |-> resolution]
    ELSE LET r1 == onewire_reset(c)
         IN IF r1.ret # ESP_OK
            THEN [c |-> r1.c, ret |-> r1.ret, resolution |-> resolution]
            ELSE LET rd == onewire_read_byte(
                               onewire_write_byte(
                                   onewire_write_byte(r1.c, DS18B20_CMD_SKIP_ROM),
                                   DS18B20_CMD_READ_SCRATCHPAD))
                     config == rd.byte
                 IN [c |-> rd.c, ret |-> ESP_OK,
                     resolution |-> ((config \div 32) % 4) + 9]

ds18b20_deinit(c) ==
    IF ~c.drv.ds18b20_initialized THEN [c |-> c, ret |-> ESP_OK]
    ELSE [c |-> [c EXCEPT !.drv.ds18b20_initialized = FALSE,
                          !.drv.onewire_pin = 0],
          ret |-> ESP_OK]

----------------------------------------------------------------------------
(* gy302.c *)

gy302_i2c_master_init(c) ==
    [c |-> [c EXCEPT !.drv.i2c_installed = TRUE], ret |-> ESP_OK]

gy302_write_cmd(c, cmd) ==
    i2c_master_cmd_begin(c, "gy", <<"i2c_write", c.drv.i2c_address, <<cmd>>>>)

gy302_read_data(c, len) ==
    LET t == i2c_master_cmd_begin(c, "gy", <<"i2c_read", c.drv.i2c_address, len>>)
        raw == c.env.gy.raw
    IN [c |-> t.c, ret |-> t.ret,
        data |-> IF t.ret = ESP_OK THEN <<raw \div 256, raw % 256>> ELSE <<>>]

(* the driver marked initialised before the mode command is acknowledged *)
gy302_init_before_mode(c, config) ==
    IF c.drv.gy302_initialized THEN [c |-> c, ret |-> ESP_OK]
    ELSE LET c1 == [c EXCEPT !.drv.i2c_address = config.address,
                             !.drv.current_mode = config.mode]
             i == gy302_i2c_master_init(c1)
             p == gy302_write_cmd(i.c, GY302_CMD_POWER_ON)
         IN IF p.ret # ESP_OK THEN p
            ELSE LET r == gy302_write_cmd(p.c, GY302_CMD_RESET)
                 IN IF r.ret # ESP_OK THEN r
                    ELSE LET m == gy302_write_cmd(r.c, r.c.drv.current_mode)
                         IN [c |-> [m.c EXCEPT !.drv.gy302_initialized = TRUE],
                             ret |-> m.ret]

gy302_init(c, config) ==
    IF c.drv.gy302_initialized THEN [c |-> c, ret |-> ESP_OK]
    ELSE LET c1 == [c EXCEPT !.drv.i2c_address = config.address,
                             !.drv.current_mode = config.mode]
             i == gy302_i2c_master_init(c1)
         IN IF i.ret # ESP_OK THEN i
            ELSE LET p == gy302_write_cmd(i.c, GY302_CMD_POWER_ON)
                 IN IF p.ret # ESP_OK THEN p
                    ELSE LET r == gy302_write_cmd(p.c, GY302_CMD_RESET)
                         IN IF r.ret # ESP_OK THEN r
                            ELSE LET m == gy302_write_cmd(r.c, r.c.drv.current_mode)
                                 IN IF m.ret # ESP_OK THEN m
                                    ELSE [c |-> [m.c EXCEPT !.drv.gy302_initialized = TRUE],
                                          ret |-> ESP_OK]

(* the raw count reported as the lux value, with no scale factor *)
Gy302Lux_unscaled(mode, raw_value) == raw_value * LuxUnit

(* raw / 1.2, in sixths of a lux; every case of the switch is the same *)
Gy302Lux(mode, raw_value) ==
    CASE mode \in {GY302_MODE_CONT_H, GY302_MODE_ONE_H} -> raw_value * 5
      [] mode \in {GY302_MODE_CONT_H2, GY302_MODE_ONE_H2} -> raw_value * 5
      [] mode \in {GY302_MODE_CONT_L, GY302_MODE_ONE_L} -> raw_value * 5
      [] OTHER -> raw_value * 5

(* every mode read as a continuous one: no command, no wait *)
gy302_read_no_trigger(c, reading) ==
    IF ~c.drv.gy302_initialized
    THEN [c |-> c, ret |-> ESP_ERR_INVALID_STATE,
          reading |-> [reading EXCEPT !.valid = FALSE, !.error = ESP_ERR_INVALID_STATE]]
    ELSE LET r == gy302_read_data(c, 2)
         IN IF r.ret # ESP_OK
            THEN [c |-> r.c, ret |-> r.ret,
                  reading |-> [reading EXCEPT !.valid = FALSE, !.error = r.ret]]
            ELSE [c |-> r.c, ret |-> ESP_OK,
                  reading |-> [lux |-> Gy302Lux(c.drv.current_mode,
                                                r.data[1] * 256 + r.data[2]),
                               valid |-> TRUE, error |-> ESP_OK]]

gy302_read(c, reading) ==
    IF ~c.drv.gy302_initialized
    THEN [c |-> c, ret |-> ESP_ERR_INVALID_STATE,
          reading |-> [reading EXCEPT !.valid = FALSE, !.error = ESP_ERR_INVALID_STATE]]
    ELSE LET one_shot == c.drv.current_mode >= GY302_MODE_ONE_H
             w == IF one_shot
                  THEN gy302_write_cmd(c, c.drv.current_mode)
                  ELSE [c |-> c, ret |-> ESP_OK]
         IN IF w.ret # ESP_OK
            THEN [c |-> w.c, ret |-> w.ret,
                  reading |-> [reading EXCEPT !.valid = FALSE, !.error = w.ret]]
            ELSE LET wait == IF c.drv.current_mode \in {GY302_MODE_ONE_H, GY302_MODE_ONE_H2}
                             THEN 180 ELSE 24
                     c1 == IF one_shot
                           THEN vTaskDelay(w.c, wait)
                           ELSE w.c
                     r == gy302_read_data(c1, 2)
                 IN IF r.ret # ESP_OK
                    THEN [c |-> r.c, ret |-> r.ret,
                          reading |-> [reading EXCEPT !.valid = FALSE, !.error = r.ret]]
                    ELSE LET raw_value == r.data[1] * 256 + r.data[2]
                         IN [c |-> r.c, ret |-> ESP_OK,
                             reading |-> [lux |-> Gy302Lux(c.drv.current_mode, raw_value),
                                          valid |-> TRUE, error |-> ESP_OK]]

(* the mode recorded whatever the write returns *)
gy302_set_mode_always_stores(c, mode) ==
    IF ~c.drv.gy302_initialized THEN [c |-> c, ret |-> ESP_ERR_INVALID_STATE]
    ELSE LET w == gy302_write_cmd(c, mode)
         IN [c |-> [w.c EXCEPT !.drv.current_mode = mode], ret |-> w.ret]

gy302_set_mode(c, mode) ==
    IF ~c.drv.gy302_initialized THEN [c |-> c, ret |-> ESP_ERR_INVALID_STATE]
    ELSE LET w == gy302_write_cmd(c, mode)
         IN IF w.ret = ESP_OK
            THEN [c |-> [w.c EXCEPT !.drv.current_mode = mode], ret |-> ESP_OK]
            ELSE w

(* mode is the caller's uint8_t, written only on the success path *)
gy302_get_mode(c, mode) ==
    IF ~c.drv.gy302_initialized
    THEN [c |-> c, ret |-> ESP_ERR_INVALID_STATE, mode |-> mode]
    ELSE [c |-> c, ret |-> ESP_OK, mode |-> c.drv.current_mode]

gy302_power_down(c) ==
    IF ~c.drv.gy302_initialized THEN [c |-> c, ret |-> ESP_ERR_INVALID_STATE]
    ELSE gy302_write_cmd(c, GY302_CMD_POWER_DOWN)

gy302_deinit(c) ==
    IF ~c.drv.gy302_initialized THEN [c |-> c, ret |-> ESP_OK]
    ELSE LET p == gy302_power_down(c)
         IN [c |-> [p.c EXCEPT !.drv.i2c_installed = FALSE,
                               !.drv.gy302_initialized = FALSE,
                               !.drv.i2c_address = 0,
                               !.drv.current_mode = 0],
             ret |-> ESP_OK]

----------------------------------------------------------------------------
(* ADC: adc_oneshot_read on the soil or the light channel *)

adc_oneshot_read(c, channel) ==
    [ret |-> c.env[channel].code, raw |-> c.env[channel].value]

----------------------------------------------------------------------------
(* sensor_interface.c *)

(* a slot of the caller's buffer that read_all has not written; filled     *)
(* records whether the call stored into the slot                           *)
Unwritten ==
    [temperature |-> 0, humidity |-> 0, soil_moisture |-> 0, light_level |-> 0,
     lux |-> 0, valid |-> FALSE, error |-> ESP_OK, filled |-> FALSE]

(* lines 334-341: the slot as read_all initialises it before dispatching *)
SlotInit == [Unwritten EXCEPT !.filled = TRUE]

(* read_aht10_sensor once aht10_read has returned r: the copy into the    *)
(* caller's reading and the aht10_deinit                                   *)
read_aht10_store(r, reading) ==
    [c |-> aht10_deinit(r.c).c, ret |-> r.ret,
     reading |-> IF r.ret = ESP_OK /\ r.reading.valid
                 THEN [reading EXCEPT !.temperature = r.reading.temperature,
                                      !.humidity = r.reading.humidity,
                                      !.valid = TRUE, !.error = ESP_OK]
                 ELSE [reading EXCEPT !.valid = FALSE, !.error = r.ret]]

(* read_aht10_sensor once aht10_init has returned i *)
read_aht10_initialised(i, reading) ==
    IF i.ret # ESP_OK
    THEN [c |-> i.c, ret |-> i.ret,
          reading |-> [reading EXCEPT !.valid = FALSE, !.error = i.ret]]
    ELSE read_aht10_store(aht10_read(i.c, Aht10Zero), reading)

read_aht10_sensor(c, config, reading) ==
    read_aht10_initialised(
        aht10_init(c, [address |-> config.address, enabled |-> config.enabled]),
        reading)

Ds18b20Zero == [temperature |-> 0, valid |-> FALSE, error |-> ESP_OK]

(* read_ds18b20_sensor once ds18b20_read has returned r *)
read_ds18b20_store(r, reading) ==
    [c |-> ds18b20_deinit(r.c).c, ret |-> r.ret,
     reading |-> IF r.ret = ESP_OK /\ r.reading.valid
                 THEN [reading EXCEPT !.temperature = r.reading.temperature,
                                      !.humidity = 0,
                                      !.valid = TRUE, !.error = ESP_OK]
                 ELSE [reading EXCEPT !.valid = FALSE, !.error = r.ret]]

(* read_ds18b20_sensor once ds18b20_init has returned i *)
read_ds18b20_initialised(i, reading) ==
    IF i.ret # ESP_OK
    THEN [c |-> i.c, ret |-> i.ret,
          reading |-> [reading EXCEPT !.valid = FALSE, !.error = i.ret]]
    ELSE read_ds18b20_store(ds18b20_read(i.c, Ds18b20Zero), reading)

read_ds18b20_sensor(c, config, reading) ==
    read_ds18b20_initialised(ds18b20_init(c, [pin |-> config.pin]), reading)

Gy302Zero == [lux |-> 0, valid |-> FALSE, error |-> ESP_OK]

(* read_gy302_sensor leaving the driver as it is when the read failed *)
read_gy302_store_keeps_failed(r, reading) ==
    IF r.ret = ESP_OK /\ r.reading.valid
    THEN [c |-> gy302_deinit(r.c).c, ret |-> r.ret,
          reading |-> [reading EXCEPT
                         !.lux = r.reading.lux,
                         !.light_level = r.reading.lux \div (10 * LuxUnit),
                         !.valid = TRUE, !.error = ESP_OK]]
    ELSE [c |-> r.c, ret |-> r.ret,
          reading |-> [reading EXCEPT !.valid = FALSE, !.error = r.ret]]

(* read_gy302_sensor once gy302_read has returned r *)
read_gy302_store(r, reading) ==
    [c |-> gy302_deinit(r.c).c, ret |-> r.ret,
     reading |-> IF r.ret = ESP_OK /\ r.reading.valid
                 THEN [reading EXCEPT
                         !.lux = r.reading.lux,
                         !.light_level = r.reading.lux \div (10 * LuxUnit),
                         !.valid = TRUE, !.error = ESP_OK]
                 ELSE [reading EXCEPT !.valid = FALSE, !.error = r.ret]]

(* read_gy302_sensor once gy302_init has returned i *)
read_gy302_initialised(i, reading) ==
    IF i.ret # ESP_OK
    THEN [c |-> i.c, ret |-> i.ret,
          reading |-> [reading EXCEPT !.valid = FALSE, !.error = i.ret]]
    ELSE read_gy302_store(gy302_read(i.c, Gy302Zero), reading)

read_gy302_sensor(c, config, reading) ==
    read_gy302_initialised(
        gy302_init(c, [address |-> config.address, mode |-> GY302_MODE_ONE_H]),
        reading)

read_soil_moisture_sensor(c, config, reading) ==
    LET a == adc_oneshot_read(c, "soil")
    IN IF a.ret # ESP_OK
       THEN [c |-> c, ret |-> a.ret,
             reading |-> [reading EXCEPT !.valid = FALSE, !.error = a.ret]]
       ELSE [c |-> c, ret |-> ESP_OK,
             reading |-> [reading EXCEPT !.soil_moisture = a.raw,
                                         !.valid = TRUE, !.error = ESP_OK]]

read_light_sensor(c, config, reading) ==
    LET a == adc_oneshot_read(c, "light")
    IN IF a.ret # ESP_OK
       THEN [c |-> c, ret |-> a.ret,
             reading |-> [reading EXCEPT !.valid = FALSE, !.error = a.ret]]
       ELSE [c |-> c, ret |-> ESP_OK,
             reading |-> [reading EXCEPT !.light_level = a.raw,
                                         !.valid = TRUE, !.error = ESP_OK]]

(* read_all_dispatch with a default branch that forgets the error code *)
read_all_dispatch_silent_default(c, config) ==
    CASE config.type = SENSOR_TYPE_AHT10 -> read_aht10_sensor(c, config, SlotInit)
      [] config.type = SENSOR_TYPE_DS18B20 -> read_ds18b20_sensor(c, config, SlotInit)
      [] config.type = SENSOR_TYPE_GY302 -> read_gy302_sensor(c, config, SlotInit)
      [] config.type = SENSOR_TYPE_SOIL_MOISTURE ->
             read_soil_moisture_sensor(c, config, SlotInit)
      [] config.type = SENSOR_TYPE_LIGHT -> read_light_sensor(c, config, SlotInit)
      [] OTHER -> [c |-> c, ret |-> ESP_OK, reading |-> SlotInit]

(* the switch of read_all (lines 343-370) on an initialised slot *)
read_all_dispatch(c, config) ==
    CASE config.type = SENSOR_TYPE_AHT10 -> read_aht10_sensor(c, config, SlotInit)
      [] config.type = SENSOR_TYPE_DS18B20 -> read_ds18b20_sensor(c, config, SlotInit)
      [] config.type = SENSOR_TYPE_GY302 -> read_gy302_sensor(c, config, SlotInit)
      [] config.type = SENSOR_TYPE_SOIL_MOISTURE ->
             read_soil_moisture_sensor(c, config, SlotInit)
      [] config.type = SENSOR_TYPE_LIGHT -> read_light_sensor(c, config, SlotInit)
      [] OTHER -> [c |-> c, ret |-> ESP_OK,
                   reading |-> [SlotInit EXCEPT !.error = ESP_ERR_INVALID_ARG]]

(* read_all_store counting every dispatch that returned ESP_OK *)
read_all_store_count_returns(acc, r, i) ==
    [c |-> r.c,
     readings |-> [acc.readings EXCEPT ![i + 1] = r.reading],
     valid_readings |-> IF r.ret = ESP_OK
                        THEN acc.valid_readings + 1
                        ELSE acc.valid_readings]

(* lines 372-380: the dispatch's result r goes to slot i (0-based), and a  *)
(* reading that is valid is counted                                        *)
read_all_store(acc, r, i) ==
    [c |-> r.c,
     readings |-> [acc.readings EXCEPT ![i + 1] = r.reading],
     valid_readings |-> IF r.ret = ESP_OK /\ r.reading.valid
                        THEN acc.valid_readings + 1
                        ELSE acc.valid_readings]

(* read_all_body leaving the loop's work undone once a slot has failed *)
read_all_body_stop_at_failure(acc, config, i, w) ==
    IF ~config.enabled THEN acc
    ELSE IF \E k \in 1..i : acc.readings[k].filled /\ ~acc.readings[k].valid THEN acc
    ELSE read_all_store(acc, read_all_dispatch([acc.c EXCEPT !.env = w], config), i)

(* One iteration of the loop of read_all for index i (0-based) on the      *)
(* running state acc = [c, readings, valid_readings].  The devices answer  *)
(* each dispatch as the world w says.                                      *)
read_all_body(acc, config, i, w) ==
    IF ~config.enabled THEN acc
    ELSE read_all_store(acc, read_all_dispatch([acc.c EXCEPT !.env = w], config), i)

RECURSIVE read_all_loop(_, _, _, _, _)
read_all_loop(acc, sensors, i, max_readings, w) ==
    IF i < Len(sensors) /\ i < max_readings
    THEN read_all_loop(read_all_body(acc, sensors[i + 1], i, w),
                       sensors, i + 1, max_readings, w)
    ELSE acc

(* line 382: return valid_readings *)
read_all_return(a) == [c |-> a.c, readings |-> a.readings, ret |-> a.valid_readings]

(* si = [config, initialized] is the registry's g_config and g_initialized; *)
(* buf is the caller's buffer of max_readings slots                         *)
sensor_interface_read_all(si, c, buf, max_readings, w) ==
    IF max_readings <= 0 THEN [c |-> c, readings |-> buf, ret |-> 0 - 1]
    ELSE IF ~si.initialized THEN [c |-> c, readings |-> buf, ret |-> 0 - 1]
    ELSE read_all_return(read_all_loop([c |-> c, readings |-> buf, valid_readings |-> 0],
                                       si.config, 0, max_readings, w))

(* the caller's single reading as the buffer of read_all's result r *)
read_sensor_return(r) == [c |-> r.c, reading |-> r.readings[1], ret |-> r.ret]

(* the value read_sensor returns once a descriptor of the type is found *)
read_sensor_found(si, c, reading, w) ==
    read_sensor_return(sensor_interface_read_all(si, c, <<reading>>, 1, w))

sensor_interface_read_sensor(si, c, type, reading, w) ==
    IF ~si.initialized THEN [c |-> c, reading |-> reading, ret |-> ESP_ERR_INVALID_STATE]
    ELSE IF \E i \in 1..Len(si.config) :
                si.config[i].type = type /\ si.config[i].enabled
    THEN read_sensor_found(si, c, reading, w)
    ELSE [c |-> c, reading |-> reading, ret |-> ESP_ERR_NOT_FOUND]

RECURSIVE get_status_loop(_, _, _, _, _)
RECURSIVE get_status_count(_, _, _, _, _)

(* the loop of get_status from index i (0-based) *)
get_status_loop(si, c, i, working, w) ==
    IF i < Len(si.config)
    THEN IF si.config[i + 1].enabled
         THEN get_status_count(si, sensor_interface_read_sensor(
                                       si, c, si.config[i + 1].type, Unwritten, w),
                               i, working, w)
         ELSE get_status_loop(si, c, i + 1, working, w)
    ELSE [c |-> c, working_sensors |-> working]

(* if (ret == ESP_OK) working++, r being what read_sensor returned *)
get_status_count(si, r, i, working, w) ==
    IF r.ret = ESP_OK
    THEN get_status_loop(si, r.c, i + 1, working + 1, w)
    ELSE get_status_loop(si, r.c, i + 1, working, w)

(* the status filled from the loop's result r *)
get_status_return(si, r) ==
    [c |-> r.c, ret |-> ESP_OK,
     working_sensors |-> r.working_sensors,
     total_sensors |-> Len(si.config)]

sensor_interface_get_status(si, c, w) ==
    IF ~si.initialized
    THEN [c |-> c, ret |-> ESP_ERR_INVALID_STATE,
          working_sensors |-> 0, total_sensors |-> 0]
    ELSE get_status_return(si, get_status_loop(si, c, 0, 0, w))


(* one probe of the scan: a zero-length write to the address *)
scan_probe(c, address, w) ==
    IF ~c.drv.i2c_installed THEN ESP_ERR_INVALID_STATE
    ELSE IF address = AHT10_I2C_ADDR
    THEN (IF w.aht.script = <<>> THEN ESP_OK ELSE Head(w.aht.script))
    ELSE IF address = PLANT_MONITOR_AHT10_ADDR_2
    THEN (IF w.aht2.script = <<>> THEN ESP_OK ELSE Head(w.aht2.script))
    ELSE IF address = GY302_I2C_ADDR
    THEN (IF w.gy.script = <<>> THEN ESP_OK ELSE Head(w.gy.script))
    ELSE ESP_FAIL

sensor_interface_scan_i2c(si, c, w) ==
    IF ~si.initialized THEN 0 - 1
    ELSE Cardinality({address \in 1..126 : scan_probe(c, address, w) = ESP_OK})

sensor_interface_init(si, c, config) ==
    IF si.initialized THEN [si |-> si, c |-> c, ret |-> ESP_OK]
    ELSE LET i == i2c_master_init(c)
         IN [si |-> [config |-> config, initialized |-> TRUE],
             c |-> i.c, ret |-> ESP_OK]

sensor_interface_deinit(si, c) ==
    IF ~si.initialized THEN [si |-> si, c |-> c, ret |-> ESP_OK]
    ELSE [si |-> [config |-> <<>>, initialized |-> FALSE],
          c |-> [c EXCEPT !.drv.i2c_installed = FALSE],
          ret |-> ESP_OK]

----------------------------------------------------------------------------
(* The physical devices the model is run against *)

(* 25 C and 50 %: humidity_raw = 2^19, temp_raw = 0x60000 *)
Aht10Data == <<128, 0, 6, 0, 0>>

AhtOk == [script |-> <<>>, cal |-> TRUE, calibratable |-> TRUE, busy |-> FALSE,
          other |-> 0, data |-> Aht10Data]
AhtNack == [AhtOk EXCEPT !.script = <<ESP_FAIL>>]
AhtDevs == {AhtOk, AhtNack}

(* scratchpads holding raw temperature 0x0191 *)
SpGenuine == <<145, 1, 75, 70, 127, 255, 15, 16, 37>>     \* byte 8 is the CRC8 of bytes 0..7
SpZeroByte == <<145, 1, 75, 70, 127, 255, 15, 16, 0>>     \* byte 8 is not the CRC8
SpTampered == <<145, 1, 75, 70, 127, 255, 15, 16, 38>>    \* byte 8 is not the CRC8
SpCrcZero == <<145, 1, 193, 70, 127, 255, 15, 16, 0>>     \* the CRC8 of bytes 0..7 is 0
(* scratchpads with byte 8 zero holding raw temperature 0x07D1 (125.0625) and *)
(* 0xFF5E (-10.125)                                                          *)
SpHot == <<209, 7, 75, 70, 127, 255, 15, 16, 0>>
SpCold == <<94, 255, 75, 70, 127, 255, 15, 16, 0>>

DsDev(presence, scratchpad) ==
    [presence |-> presence, scratchpad |-> scratchpad, rpos |-> 0, wpos |-> 0]
DsOk == DsDev(<<>>, SpCrcZero)
DsDevs == {DsOk, DsDev(<<>>, SpGenuine), DsDev(<<FALSE>>, SpCrcZero)}

GyOk == [script |-> <<>>, raw |-> 9000]
GyDevs == {GyOk,
           [GyOk EXCEPT !.script = <<ESP_FAIL>>],
           [GyOk EXCEPT !.script = <<ESP_OK, ESP_OK, ESP_OK, ESP_OK, ESP_ERR_TIMEOUT>>]}

SoilOk == [code |-> ESP_OK, value |-> 2048]
SoilDevs == {SoilOk, [code |-> ESP_ERR_TIMEOUT, value |-> 0]}
LightOk == [code |-> ESP_OK, value |-> 1024]
LightDevs == {LightOk, [code |-> ESP_ERR_TIMEOUT, value |-> 0]}

WorldOk == [aht |-> AhtOk, aht2 |-> AhtOk, ds |-> DsOk, gy |-> GyOk, soil |-> SoilOk,
            light |-> LightOk]

(* the registry is run against every combination of these *)
Worlds == [aht : {AhtOk}, aht2 : {AhtOk}, ds : {DsOk, DsDev(<<FALSE>>, SpCrcZero)}, gy : GyDevs,
           soil : SoilDevs, light : LightDevs]

(* the device a descriptor of the type talks to *)
DeviceOf(type) ==
    CASE type = SENSOR_TYPE_AHT10 -> "aht"
      [] type = SENSOR_TYPE_DS18B20 -> "ds"
      [] type = SENSOR_TYPE_GY302 -> "gy"
      [] type = SENSOR_TYPE_SOIL_MOISTURE -> "soil"
      [] type = SENSOR_TYPE_LIGHT -> "light"
      [] OTHER -> "none"

(* sensor_config_t: address and pin as app_main gives them to each type *)
Desc(type, enabled) ==
    [type |-> type,
     address |-> CASE type = SENSOR_TYPE_AHT10 -> AHT10_I2C_ADDR
                   [] type = SENSOR_TYPE_GY302 -> GY302_I2C_ADDR
                   [] OTHER -> 0,
     pin |-> CASE type = SENSOR_TYPE_DS18B20 -> 4
               [] type = SENSOR_TYPE_SOIL_MOISTURE -> 1
               [] type = SENSOR_TYPE_LIGHT -> 2
               [] OTHER -> 0,
     enabled |-> enabled]

Descs == {Desc(t, TRUE) : t \in SensorTypes} \cup {Desc(SENSOR_TYPE_GY302, FALSE)}

Configs == UNION {[1..n -> Descs] : n \in 0..MaxSensors}

Enabled(config) == {i \in 1..Len(config) : config[i].enabled}

(* the worlds that differ from WorldOk only in devices the configuration reads *)
WorldsFor(config) ==
    {w \in Worlds :
        \A d \in {"aht", "ds", "gy", "soil", "light"} :
            (\A i \in Enabled(config) : DeviceOf(config[i].type) # d) => w[d] = WorldOk[d]}

NoOut == [working_sensors |-> 0, total_sensors |-> 0]
NoHealth == [total |-> 0, count |-> 1, health_text |-> "NULL", recommendation |-> "NULL"]

(* plant_monitor.c: g_state = {0} *)
Aht10SensorZero ==
    [addr |-> 0, initialized |-> FALSE, temperature |-> 0, humidity |-> 0, valid |-> FALSE]
StateZero ==
    [sensor1 |-> Aht10SensorZero, sensor2 |-> Aht10SensorZero, i2c_initialized |-> FALSE,
     config |-> [aht10_addr_1 |-> 0, aht10_addr_2 |-> 0,
                 temp_min |-> 0, temp_max |-> 0,
                 temp_optimal_min |-> 0, temp_optimal_max |-> 0,
                 humidity_min |-> 0, humidity_max |-> 0,
                 humidity_optimal_min |-> 0, humidity_optimal_max |-> 0]]

----------------------------------------------------------------------------
(* Spec: an application (the integration tests' fixture) calling the       *)
(* registry API in any order                                               *)

Si == [config |-> g_config, initialized |-> g_initialized]
Ctx == [drv |-> drv, bus |-> <<>>, env |-> world]

Boot == [si |-> [config |-> <<>>, initialized |-> FALSE],
         c |-> [drv |-> DrvInit, bus |-> <<>>, env |-> WorldOk]]

(* the state after the application's sensor_interface_init(&app_config) *)
Init ==
    /\ app_config \in Configs
    /\ world \in WorldsFor(app_config)
    /\ LET r == sensor_interface_init(Boot.si, Boot.c, app_config)
       IN /\ g_config = r.si.config
          /\ g_initialized = r.si.initialized
          /\ drv = r.c.drv
          /\ ret = r.ret
    /\ bus = <<>>
    /\ op = <<"sensor_interface_init">>
    /\ readings = <<>>
    /\ out = NoOut
    /\ plant_health = NoHealth
    /\ g_state = StateZero

(* the application's variables after a call that returned r *)
ReadAllReturns(max_readings, r) ==
    /\ drv' = r.c.drv
    /\ bus' = r.c.bus
    /\ op' = <<"sensor_interface_read_all", max_readings>>
    /\ ret' = r.ret
    /\ readings' = r.readings
    /\ out' = NoOut
    /\ UNCHANGED <<world, app_config, g_config, g_initialized, plant_health, g_state>>

ReadAll(max_readings) ==
    ReadAllReturns(max_readings,
                   sensor_interface_read_all(Si, Ctx,
                                             [i \in 1..max_readings |-> Unwritten],
                                             max_readings, world))

ReadSensorReturns(type, r) ==
    /\ drv' = r.c.drv
    /\ bus' = r.c.bus
    /\ op' = <<"sensor_interface_read_sensor", type>>
    /\ ret' = r.ret
    /\ readings' = <<r.reading>>
    /\ out' = NoOut
    /\ UNCHANGED <<world, app_config, g_config, g_initialized, plant_health, g_state>>

ReadSensor(type) ==
    ReadSensorReturns(type,
                      sensor_interface_read_sensor(Si, Ctx, type, Unwritten, world))

GetStatusReturns(r) ==
    /\ drv' = r.c.drv
    /\ bus' = r.c.bus
    /\ op' = <<"sensor_interface_get_status">>
    /\ ret' = r.ret
    /\ readings' = <<>>
    /\ out' = [working_sensors |-> r.working_sensors,
               total_sensors |-> r.total_sensors]
    /\ UNCHANGED <<world, app_config, g_config, g_initialized, plant_health, g_state>>

GetStatus == GetStatusReturns(sensor_interface_get_status(Si, Ctx, world))

ScanI2c ==
    /\ op' = <<"sensor_interface_scan_i2c">>
    /\ ret' = sensor_interface_scan_i2c(Si, Ctx, world)
    /\ bus' = <<>>
    /\ readings' = <<>>
    /\ out' = NoOut
    /\ UNCHANGED <<world, app_config, g_config, g_initialized, drv, plant_health, g_state>>

Next ==
    \/ \E max_readings \in {0, MaxSensors} : ReadAll(max_readings)
    \/ \E type \in SensorTypes : ReadSensor(type)
    \/ GetStatus
    \/ ScanI2c

Spec == Init /\ [][Next]_vars

----------------------------------------------------------------------------
(* Properties of the registry, checked under Spec *)

AfterReadAll == op[1] = "sensor_interface_read_all"
AfterReadSensor == op[1] = "sensor_interface_read_sensor"
AfterGetStatus == op[1] = "sensor_interface_get_status"

(* the last read_all was given room for every configured descriptor *)
RoomForAll == AfterReadAll /\ op[2] >= Len(g_config)

(* What the descriptor at index i yields when it is read on its own, right *)
(* after sensor_interface_init, from the devices as they are.              *)
SoloCtx ==
    [drv |-> sensor_interface_init(Boot.si, Boot.c, app_config).c.drv,
     bus |-> <<>>, env |-> world]
Solo(i) == read_all_dispatch(SoloCtx, g_config[i])

ValidSlots == {i \in 1..Len(readings) : readings[i].valid}

(* C1: in sensor_interface_read_all a driver failure at index i marks only *)
(* readings[i] invalid, with that driver's error code: every enabled       *)
(* descriptor, before and after a failing one, is dispatched and its slot  *)
(* holds exactly what that sensor yields on its own, the slots of disabled *)
(* descriptors are not written, and the call returns a count.  With 3      *)
(* enabled sensors of which exactly one fails with a bus timeout the call  *)
(* returns 2: two valid entries and one invalid entry carrying the timeout *)
(* code.                                                                   *)
C1_PartialFailureIsolated ==
    (RoomForAll /\ op[2] >= 1) =>
        /\ ret >= 0
        /\ \A i \in 1..Len(g_config) :
              IF g_config[i].enabled
              THEN readings[i].filled /\ readings[i] = Solo(i).reading
              ELSE readings[i] = Unwritten
        /\ \A i \in Enabled(g_config) :
              (/\ Cardinality(Enabled(g_config)) = 3
               /\ Solo(i).ret = ESP_ERR_TIMEOUT
               /\ \A j \in Enabled(g_config) \ {i} :
                     Solo(j).ret = ESP_OK /\ Solo(j).reading.valid)
              => /\ ret = 2
                 /\ ~readings[i].valid
                 /\ readings[i].error = ESP_ERR_TIMEOUT
                 /\ ValidSlots = Enabled(g_config) \ {i}

(* a read_all over three enabled sensors whose first one timed out on the  *)
(* bus while the two after it were read                                    *)
C1_Witness ==
    /\ RoomForAll
    /\ Enabled(g_config) = {1, 2, 3}
    /\ g_config[1].type = SENSOR_TYPE_GY302
    /\ readings[1].filled /\ ~readings[1].valid
    /\ readings[1].error = ESP_ERR_TIMEOUT
    /\ readings[2].valid /\ readings[3].valid
    /\ ret = 2

(* C2 as stated: after init with N descriptors, E of them enabled, every   *)
(* read_all(readings, max) with max >= N returns v with 0 <= v <= E <= N,  *)
(* v being the number of slots marked valid.                               *)
C2_AsStated ==
    RoomForAll =>
        /\ 0 <= ret
        /\ ret <= Cardinality(Enabled(g_config))
        /\ Cardinality(Enabled(g_config)) <= Len(g_config)
        /\ ret = Cardinality(ValidSlots)

(* C2, amended: the same for every read_all(readings, max) with max >= N   *)
(* and max >= 1, whatever the devices answer (a call with max <= 0 is      *)
(* rejected with -1).                                                      *)
C2_ValidCountBounded ==
    (RoomForAll /\ op[2] >= 1) =>
        /\ 0 <= ret
        /\ ret <= Cardinality(Enabled(g_config))
        /\ Cardinality(Enabled(g_config)) <= Len(g_config)
        /\ ret = Cardinality(ValidSlots)

(* a read_all over three enabled sensors none of which answered *)
C2_Witness ==
    /\ RoomForAll
    /\ Cardinality(Enabled(g_config)) = 3
    /\ \A i \in 1..3 : g_config[i].type \in {SENSOR_TYPE_DS18B20, SENSOR_TYPE_GY302,
                                              SENSOR_TYPE_SOIL_MOISTURE}
    /\ \A i \in 1..3 : readings[i].filled /\ ~readings[i].valid
    /\ ret = 0

(* C3: every slot read_all fills for an enabled descriptor is either valid *)
(* with error ESP_OK or invalid with an error other than ESP_OK, for every *)
(* sensor kind, the types without a driver included.                       *)
C3_InvalidCarriesError ==
    AfterReadAll =>
        \A i \in 1..Len(readings) :
            readings[i].filled =>
                /\ (~readings[i].valid => readings[i].error # ESP_OK)
                /\ (readings[i].valid => readings[i].error = ESP_OK)

(* a read_all that filled the slot of a type without a driver, a slot of a *)
(* failed driver and a valid slot                                          *)
C3_Witness ==
    /\ RoomForAll
    /\ \E i \in 1..Len(g_config) :
          /\ g_config[i].type = SENSOR_TYPE_DHT11
          /\ readings[i].filled /\ readings[i].error = ESP_ERR_INVALID_ARG
    /\ \E i \in 1..Len(g_config) :
          /\ g_config[i].type = SENSOR_TYPE_DS18B20
          /\ readings[i].filled /\ readings[i].error = ESP_ERR_NOT_FOUND
    /\ \E i \in 1..Len(g_config) : readings[i].valid

(* the descriptors of the requested type that are enabled *)
OfType(type) == {i \in Enabled(g_config) : g_config[i].type = type}
FirstOfType(type) == CHOOSE i \in OfType(type) : \A j \in OfType(type) : i <= j

(* C6: read_sensor(type, reading) stores the reading of the first enabled  *)
(* descriptor of that type, wherever it sits in the list, and returns      *)
(* ESP_ERR_NOT_FOUND without reading any sensor when there is none.        *)
C6_ReadsRequestedType ==
    AfterReadSensor =>
        IF OfType(op[2]) # {}
        THEN readings[1] = Solo(FirstOfType(op[2])).reading
        ELSE ret = ESP_ERR_NOT_FOUND /\ bus = <<>> /\ readings[1] = Unwritten

EspErrors ==
    {ESP_OK, ESP_FAIL, ESP_ERR_INVALID_ARG, ESP_ERR_INVALID_STATE, ESP_ERR_NOT_FOUND,
     ESP_ERR_TIMEOUT, ESP_ERR_INVALID_RESPONSE}

(* C7: read_sensor returns ESP_OK exactly when the reading it produced is  *)
(* valid, and its return value is ESP_OK or a defined error code, never a  *)
(* reading count.                                                          *)
C7_ReturnsErrorCode ==
    AfterReadSensor =>
        /\ ret \in EspErrors
        /\ (ret = ESP_OK) <=> readings[1].valid

(* C8: get_status returns ESP_OK with total_sensors the configured count   *)
(* and working_sensors the number of enabled descriptors whose sensor      *)
(* reads successfully, so 0 <= working_sensors <= total_sensors.           *)
C8_WorkingSensorsCounted ==
    AfterGetStatus =>
        /\ ret = ESP_OK
        /\ out.total_sensors = Len(g_config)
        /\ out.working_sensors =
              Cardinality({i \in Enabled(g_config) : Solo(i).reading.valid})
        /\ 0 <= out.working_sensors
        /\ out.working_sensors <= out.total_sensors

(* the device count of a scan made directly after sensor_interface_init *)
ScanAfterInit ==
    sensor_interface_scan_i2c(
        Si, [Ctx EXCEPT !.drv = sensor_interface_init(Boot.si, Boot.c, app_config).c.drv],
        world)

(* C22: while the devices on the bus stay as they are, every scan of an    *)
(* initialised interface returns the same device count, whether it follows *)
(* another scan or any sequence of read_all, read_sensor and get_status    *)
(* calls: the count of the scan made directly after the initialisation.    *)
C22_ScanIdempotent ==
    op = <<"sensor_interface_scan_i2c">> => ret = ScanAfterInit

----------------------------------------------------------------------------
(* SpecDrivers: an application calling the three drivers directly, on an   *)
(* installed I2C driver, while the devices on the bench are exchanged      *)

AhtUncalibrated == [AhtOk EXCEPT !.cal = FALSE]
AhtDead == [AhtOk EXCEPT !.cal = FALSE, !.calibratable = FALSE]
AhtBusy == [AhtOk EXCEPT !.busy = TRUE]
AhtBench == {AhtOk, AhtNack, AhtUncalibrated, AhtDead, AhtBusy}

DsBench == {DsDev(<<>>, sp) : sp \in {SpGenuine, SpZeroByte, SpTampered, SpCrcZero,
                                       SpHot, SpCold}}
               \cup {DsDev(<<FALSE>>, SpGenuine), DsDev(<<TRUE, FALSE>>, SpGenuine)}

GyBench == GyDevs \cup {[GyOk EXCEPT !.script = <<ESP_OK, ESP_ERR_TIMEOUT>>],
                     [GyOk EXCEPT !.raw = 0], [GyOk EXCEPT !.raw = 65535]}

DriverApp == <<Desc(SENSOR_TYPE_AHT10, TRUE), Desc(SENSOR_TYPE_DS18B20, TRUE),
               Desc(SENSOR_TYPE_GY302, TRUE)>>

InitDrivers ==
    /\ app_config = DriverApp
    /\ g_config = <<>>
    /\ g_initialized = FALSE
    /\ world \in [aht : AhtBench, aht2 : {AhtOk}, ds : DsBench, gy : GyBench,
                  soil : {SoilOk}, light : {LightOk}]
    /\ drv = i2c_master_init(Boot.c).c.drv
    /\ bus = <<>>
    /\ op = <<"i2c_master_init">>
    /\ ret = ESP_OK
    /\ readings = <<>>
    /\ out = NoOut
    /\ plant_health = NoHealth
    /\ g_state = StateZero

(* the outcome r of a driver call: the globals, the traffic of the call,   *)
(* the result and, of the devices, the registers the call has written      *)
DriverCall(name, r, reading) ==
    /\ drv' = r.c.drv
    /\ bus' = r.c.bus
    /\ op' = name
    /\ ret' = r.ret
    /\ readings' = reading
    /\ world' = [world EXCEPT !.aht.cal = r.c.env.aht.cal,
                              !.ds.scratchpad = r.c.env.ds.scratchpad]
    /\ UNCHANGED <<app_config, g_config, g_initialized, out, plant_health, g_state>>

Aht10Init(enabled) ==
    DriverCall(<<"aht10_init", enabled>>,
               aht10_init(Ctx, [address |-> app_config[1].address, enabled |-> enabled]),
               <<>>)

Aht10Read ==
    LET r == aht10_read(Ctx, Aht10Zero)
    IN DriverCall(<<"aht10_read">>, r, <<r.reading>>)

Aht10Deinit == DriverCall(<<"aht10_deinit">>, aht10_deinit(Ctx), <<>>)

Ds18b20Init ==
    DriverCall(<<"ds18b20_init">>, ds18b20_init(Ctx, [pin |-> app_config[2].pin]), <<>>)

Ds18b20Read ==
    LET r == ds18b20_read(Ctx, Ds18b20Zero)
    IN DriverCall(<<"ds18b20_read">>, r, <<r.reading>>)

Ds18b20Deinit == DriverCall(<<"ds18b20_deinit">>, ds18b20_deinit(Ctx), <<>>)

Gy302Init(mode) ==
    DriverCall(<<"gy302_init", mode>>,
               gy302_init(Ctx, [address |-> app_config[3].address, mode |-> mode]),
               <<>>)

Gy302Read ==
    LET r == gy302_read(Ctx, Gy302Zero)
    IN DriverCall(<<"gy302_read">>, r, <<r.reading>>)

Gy302Deinit == DriverCall(<<"gy302_deinit">>, gy302_deinit(Ctx), <<>>)

(* one device on the bench is exchanged for another *)
Exchange ==
    /\ \/ \E d \in AhtBench : world' = [world EXCEPT !.aht = d]
       \/ \E d \in DsBench : world' = [world EXCEPT !.ds = d]
       \/ \E d \in GyBench : world' = [world EXCEPT !.gy = d]
    /\ op' = <<"exchange">>
    /\ bus' = <<>>
    /\ readings' = <<>>
    /\ UNCHANGED <<app_config, g_config, g_initialized, drv, ret, out, plant_health, g_state>>

NextDrivers ==
    \/ \E enabled \in BOOLEAN : Aht10Init(enabled)
    \/ Aht10Read
    \/ Aht10Deinit
    \/ Ds18b20Init
    \/ Ds18b20Read
    \/ Ds18b20Deinit
    \/ \E mode \in {GY302_MODE_CONT_H, GY302_MODE_ONE_H,
                    GY302_MODE_CONT_H2, GY302_MODE_ONE_H2} : Gy302Init(mode)
    \/ Gy302Read
    \/ Gy302Deinit
    \/ Exchange

SpecDrivers == InitDrivers /\ [][NextDrivers]_vars

----------------------------------------------------------------------------
(* Properties of the drivers, checked under SpecDrivers *)

(* The Maxim/Dallas CRC8 (x^8 + x^5 + x^4 + 1, reflected: 0x8C), bit by bit *)
Crc8Step(crc) == IF crc % 2 = 1 THEN Xor8(crc \div 2, 140) ELSE crc \div 2

RECURSIVE Crc8Byte(_, _)
Crc8Byte(crc, n) == IF n = 0 THEN crc ELSE Crc8Byte(Crc8Step(crc), n - 1)

(* the eight shifts, for every value of crc ^ byte *)
Crc8Table == [b \in 0..255 |-> Crc8Byte(b, 8)]

RECURSIVE Crc8From(_, _)
Crc8From(crc, bytes) ==
    IF bytes = <<>> THEN crc
    ELSE Crc8From(Crc8Table[Xor8(crc, Head(bytes))], Tail(bytes))

Crc8(bytes) == Crc8From(0, bytes)

(* the last call was a ds18b20_read that got as far as reading the scratchpad *)
ScratchpadWasRead ==
    /\ op = <<"ds18b20_read">>
    /\ \E k \in 1..Len(bus) : bus[k] = <<"ow_read">>

(* C4: ds18b20_read checks the CRC8 of scratchpad bytes 0..7 against byte 8: *)
(* a scratchpad whose byte 8 differs from the CRC8 is answered with the      *)
(* CRC-mismatch error and an invalid reading, and a scratchpad whose byte 8  *)
(* is the CRC8 is not rejected.                                              *)
C4_CrcVerified ==
    ScratchpadWasRead =>
        LET scratchpad == world.ds.scratchpad
        IN IF scratchpad[9] # Crc8(SubSeq(scratchpad, 1, 8))
           THEN ret = ESP_ERR_INVALID_RESPONSE /\ ~readings[1].valid
           ELSE ret = ESP_OK /\ readings[1].valid

(* the traffic of the last call after the power-up wait *)
AfterPowerUp == IF bus # <<>> /\ bus[1] = <<"delay_ms", 40>> THEN Tail(bus) ELSE bus

(* C5: aht10_init of an enabled sensor on an acknowledging bus sends the   *)
(* soft reset, waits and reads one status byte; with the calibration bit   *)
(* clear it sends 0xE1 0x08 0x00, waits and reads the status again; it     *)
(* fails with the not-calibrated error only if the bit is still clear and  *)
(* otherwise returns ESP_OK with the driver initialised.                   *)
C5_Aht10InitReachesReady ==
    (op = <<"aht10_init", TRUE>> /\ drv.i2c_installed /\ world.aht.script = <<>>) =>
        LET address == app_config[1].address
            reset == << <<"i2c_write", address, <<AHT10_CMD_SOFT_RESET>>>>,
                        <<"delay_ms", 20>>,
                        <<"i2c_read", address, 1>> >>
            calibration == << <<"i2c_write", address, <<AHT10_CMD_INIT, 8, 0>>>>,
                              <<"delay_ms", 10>>,
                              <<"i2c_read", address, 1>> >>
        IN \/ /\ AfterPowerUp = reset
              /\ world.aht.cal
              /\ ret = ESP_OK /\ drv.aht10_initialized
           \/ /\ AfterPowerUp = reset \o calibration
              /\ world.aht.cal
              /\ ret = ESP_OK /\ drv.aht10_initialized
           \/ /\ AfterPowerUp = reset \o calibration
              /\ ~world.aht.cal
              /\ ret = ESP_ERR_INVALID_STATE /\ ~drv.aht10_initialized

(* C13: every reading ds18b20_read marks valid has its temperature within   *)
(* -55..+125 degrees, the range of the device: a scratchpad that decodes    *)
(* outside it is not returned as valid.                                     *)
C13_ValidInDeviceRange ==
    (op = <<"ds18b20_read">> /\ readings[1].valid) =>
        /\ (0 - 55) * TempUnit <= readings[1].temperature
        /\ readings[1].temperature <= 125 * TempUnit

(* C15: a scratchpad that passes ds18b20_read's integrity check is read as  *)
(* s * 0.0625 degrees, s the signed 16-bit value (byte1 << 8) | byte0, so    *)
(* that raw values from 0x8000 are negative; the genuine scratchpad that    *)
(* starts 0x91 0x01 and carries its CRC in byte 8 reads as a valid          *)
(* 25.0625 degrees.                                                         *)
C15_SignedSixteenths ==
    ScratchpadWasRead =>
        LET scratchpad == world.ds.scratchpad
            raw == scratchpad[2] * 256 + scratchpad[1]
            s == IF raw >= 32768 THEN raw - 65536 ELSE raw
        IN /\ ret = ESP_OK =>
                 /\ readings[1].valid
                 /\ readings[1].temperature * 16 = s * TempUnit
           /\ scratchpad = SpGenuine =>
                 /\ ret = ESP_OK
                 /\ readings[1].valid
                 /\ readings[1].temperature * 16 = 401 * TempUnit

(* the device does not answer the reset pulses of the last call *)
NoPresence == world.ds.presence # <<>> /\ ~Head(world.ds.presence)

(* C16: a ds18b20_init whose reset pulse finds no presence pulse returns    *)
(* the device-not-found error and leaves the driver uninitialised, and the  *)
(* ds18b20_read that follows fails with an invalid reading and an error     *)
(* without any traffic on the line; with a presence pulse ds18b20_init      *)
(* returns ESP_OK and the driver is initialised.                            *)
C16_InitNeedsPresence ==
    /\ [](op = <<"ds18b20_init">> /\ bus # <<>> =>
             IF NoPresence
             THEN ret = ESP_ERR_NOT_FOUND /\ ~drv.ds18b20_initialized
             ELSE ret = ESP_OK /\ drv.ds18b20_initialized)
    /\ [][(/\ op = <<"ds18b20_init">> /\ ret = ESP_ERR_NOT_FOUND
            /\ op' = <<"ds18b20_read">>) =>
               /\ ret' # ESP_OK
               /\ ~readings'[1].valid
               /\ readings'[1].error # ESP_OK
               /\ bus' = <<>>]_vars

(* a ds18b20_read has followed an initialisation that found no device *)
C16_Witness ==
    /\ op = <<"ds18b20_read">>
    /\ NoPresence
    /\ ~drv.ds18b20_initialized
    /\ ret = ESP_ERR_INVALID_STATE
    /\ bus = <<>>

----------------------------------------------------------------------------
(* main.cpp: the batch health scorer.  A mean is kept as the sum and the   *)
(* number of readings in it, health_score as total / count.                *)

(* the per-axis scores of a mean sum / n (n = 0: the mean is 0.0) *)
TempScore(sum, n) ==
    LET k == IF n > 0 THEN n ELSE 1
    IN IF sum < 10 * TempUnit * k \/ sum > 35 * TempUnit * k THEN 0
       ELSE IF sum < 18 * TempUnit * k \/ sum > 28 * TempUnit * k THEN 50
       ELSE 100

HumidityScore(sum, n) ==
    LET k == IF n > 0 THEN n ELSE 1
    IN IF sum < 30 * HumUnit * k \/ sum > 80 * HumUnit * k THEN 0
       ELSE IF sum < 40 * HumUnit * k \/ sum > 70 * HumUnit * k THEN 50
       ELSE 100

LightScore(sum, n) ==
    LET k == IF n > 0 THEN n ELSE 1
    IN IF sum < 100 * LuxUnit * k \/ sum > 50000 * LuxUnit * k THEN 0
       ELSE IF sum < 1000 * LuxUnit * k \/ sum > 10000 * LuxUnit * k THEN 50
       ELSE 100

(* lines 129-149: the level of the score total / count *)
HealthLevel(total, count) ==
    IF total >= 90 * count
    THEN [total |-> total, count |-> count, health_text |-> "Excellent",
          recommendation |-> "Perfect conditions! Keep it up."]
    ELSE IF total >= 70 * count
    THEN [total |-> total, count |-> count, health_text |-> "Good",
          recommendation |-> "Good conditions, monitor regularly."]
    ELSE IF total >= 50 * count
    THEN [total |-> total, count |-> count, health_text |-> "Fair",
          recommendation |-> "Acceptable conditions, consider adjustments."]
    ELSE IF total >= 30 * count
    THEN [total |-> total, count |-> count, health_text |-> "Poor",
          recommendation |-> "Needs attention, check environment."]
    ELSE [total |-> total, count |-> count, health_text |-> "Critical",
          recommendation |-> "Immediate attention required!"]

HealthAcc ==
    [avg_temp |-> 0, avg_humidity |-> 0, avg_lux |-> 0, valid_readings |-> 0,
     temp_readings |-> 0, humidity_readings |-> 0, lux_readings |-> 0]

(* lines 54-70: one iteration of the loop over the batch *)
health_loop_body(acc, reading) ==
    IF ~reading.valid THEN acc
    ELSE LET t == reading.temperature > (0 - 50) * TempUnit
                  /\ reading.temperature < 150 * TempUnit
             h == reading.humidity >= 0 /\ reading.humidity <= 100 * HumUnit
             l == reading.lux >= 0
         IN [avg_temp |-> IF t THEN acc.avg_temp + reading.temperature ELSE acc.avg_temp,
             temp_readings |-> IF t THEN acc.temp_readings + 1 ELSE acc.temp_readings,
             avg_humidity |-> IF h THEN acc.avg_humidity + reading.humidity
                              ELSE acc.avg_humidity,
             humidity_readings |-> IF h THEN acc.humidity_readings + 1
                                   ELSE acc.humidity_readings,
             avg_lux |-> IF l THEN acc.avg_lux + reading.lux ELSE acc.avg_lux,
             lux_readings |-> IF l THEN acc.lux_readings + 1 ELSE acc.lux_readings,
             valid_readings |-> acc.valid_readings + 1]

RECURSIVE health_loop(_, _, _, _)
health_loop(acc, batch, i, reading_count) ==
    IF i < reading_count
    THEN health_loop(health_loop_body(acc, batch[i + 1]), batch, i + 1, reading_count)
    ELSE acc

(* health is the caller's plant_health_t, left alone on the error exit *)
calculate_plant_health(batch, reading_count, health) ==
    IF reading_count <= 0 THEN [ret |-> ESP_ERR_INVALID_ARG, health |-> health]
    ELSE LET a == health_loop(HealthAcc, batch, 0, reading_count)
         IN IF a.valid_readings = 0
            THEN [ret |-> ESP_OK,
                  health |-> [total |-> 0, count |-> 1, health_text |-> "Unknown",
                              recommendation |-> "No sensor data available"]]
            ELSE LET temp_score == TempScore(a.avg_temp, a.temp_readings)
                     humidity_score == HumidityScore(a.avg_humidity, a.humidity_readings)
                     light_score == LightScore(a.avg_lux, a.lux_readings)
                     score_count == (IF a.temp_readings > 0 THEN 1 ELSE 0)
                                    + (IF a.humidity_readings > 0 THEN 1 ELSE 0)
                                    + (IF a.lux_readings > 0 THEN 1 ELSE 0)
                     total_score == (IF a.temp_readings > 0 THEN temp_score ELSE 0)
                                    + (IF a.humidity_readings > 0 THEN humidity_score ELSE 0)
                                    + (IF a.lux_readings > 0 THEN light_score ELSE 0)
                 IN [ret |-> ESP_OK,
                     health |-> IF score_count > 0
                                THEN HealthLevel(total_score, score_count)
                                ELSE HealthLevel(0, 1)]

----------------------------------------------------------------------------
(* SpecHealth: calculate_plant_health applied to batches as read_all       *)
(* leaves them: every slot is the slot of a descriptor, holding what that  *)
(* descriptor's reader stores on success or on failure                     *)

AhtSlot(celsius, percent) ==
    [SlotInit EXCEPT !.temperature = celsius * TempUnit, !.humidity = percent * HumUnit,
                     !.valid = TRUE]
DsSlot(sixteenths) ==
    [SlotInit EXCEPT !.temperature = sixteenths * (TempUnit \div 16), !.valid = TRUE]
GySlot(raw) ==
    [SlotInit EXCEPT !.lux = Gy302Lux(GY302_MODE_ONE_H, raw),
                     !.light_level = Gy302Lux(GY302_MODE_ONE_H, raw) \div (10 * LuxUnit),
                     !.valid = TRUE]
SoilSlot(raw) == [SlotInit EXCEPT !.soil_moisture = raw, !.valid = TRUE]
FailedSlot(error) == [SlotInit EXCEPT !.error = error]

SlotsOf(type) ==
    CASE type = SENSOR_TYPE_AHT10 ->
             {AhtSlot(23, 55), AhtSlot(30, 75), AhtSlot(5, 90),
              FailedSlot(ESP_ERR_TIMEOUT)}
      [] type = SENSOR_TYPE_DS18B20 -> {DsSlot(401), FailedSlot(ESP_ERR_NOT_FOUND)}
      [] type = SENSOR_TYPE_GY302 -> {GySlot(9000), GySlot(60), FailedSlot(ESP_FAIL)}
      [] type = SENSOR_TYPE_SOIL_MOISTURE -> {SoilSlot(2048)}
      [] OTHER -> {FailedSlot(ESP_ERR_INVALID_ARG)}

HealthTypes == {SENSOR_TYPE_AHT10, SENSOR_TYPE_DS18B20, SENSOR_TYPE_GY302,
                SENSOR_TYPE_SOIL_MOISTURE}

HealthConfigs == UNION {[1..n -> {Desc(t, TRUE) : t \in HealthTypes}] : n \in 1..MaxBatch}

InitHealth ==
    /\ app_config \in HealthConfigs
    /\ g_config = app_config
    /\ g_initialized = TRUE
    /\ readings \in [1..Len(app_config) -> UNION {SlotsOf(t) : t \in HealthTypes}]
    /\ \A i \in 1..Len(app_config) : readings[i] \in SlotsOf(app_config[i].type)
    /\ world = WorldOk
    /\ drv = sensor_interface_init(Boot.si, Boot.c, app_config).c.drv
    /\ bus = <<>>
    /\ op = <<"sensor_interface_read_all", Len(app_config)>>
    /\ ret = Cardinality(ValidSlots)
    /\ out = NoOut
    /\ plant_health = NoHealth
    /\ g_state = StateZero

CalculatePlantHealth(reading_count) ==
    LET r == calculate_plant_health(readings, reading_count, plant_health)
    IN /\ plant_health' = r.health
       /\ ret' = r.ret
       /\ op' = <<"calculate_plant_health", reading_count>>
       /\ UNCHANGED <<world, app_config, g_config, g_initialized, drv, bus, readings, out,
                       g_state>>

NextHealth == \E reading_count \in 0..Len(readings) : CalculatePlantHealth(reading_count)

SpecHealth == InitHealth /\ [][NextHealth]_vars

(* The valid readings of the last call's batch that measured an axis *)
Scored == {i \in 1..Len(readings) : i <= op[2] /\ readings[i].valid}
MeasuredTemperature ==
    {i \in Scored : g_config[i].type \in {SENSOR_TYPE_AHT10, SENSOR_TYPE_DS18B20}}
MeasuredHumidity == {i \in Scored : g_config[i].type = SENSOR_TYPE_AHT10}
MeasuredLight == {i \in Scored : g_config[i].type = SENSOR_TYPE_GY302}

RECURSIVE SumOver(_, _)
SumOver(S, field) ==
    IF S = {} THEN 0
    ELSE LET i == CHOOSE j \in S : TRUE
         IN readings[i][field] + SumOver(S \ {i}, field)

(* the sum and the number of the per-axis scores of the measured axes *)
MeasuredTotal ==
    (IF MeasuredTemperature # {}
     THEN TempScore(SumOver(MeasuredTemperature, "temperature"),
                    Cardinality(MeasuredTemperature)) ELSE 0)
    + (IF MeasuredHumidity # {}
       THEN HumidityScore(SumOver(MeasuredHumidity, "humidity"),
                          Cardinality(MeasuredHumidity)) ELSE 0)
    + (IF MeasuredLight # {}
       THEN LightScore(SumOver(MeasuredLight, "lux"), Cardinality(MeasuredLight)) ELSE 0)
MeasuredCount ==
    (IF MeasuredTemperature # {} THEN 1 ELSE 0) + (IF MeasuredHumidity # {} THEN 1 ELSE 0)
    + (IF MeasuredLight # {} THEN 1 ELSE 0)

(* C9: in calculate_plant_health an axis enters the mean only if a valid   *)
(* reading of the batch measured it; an axis nobody measured is left out,  *)
(* not scored as 0.  A batch whose only valid reading is 23 C and 55 %     *)
(* scores 100 and is Excellent, and a batch whose only valid reading comes *)
(* from a light sensor is scored on the light axis alone.                  *)
C9_UnmeasuredAxisExcluded ==
    (op[1] = "calculate_plant_health" /\ ret = ESP_OK /\ MeasuredCount > 0) =>
        /\ plant_health.total * MeasuredCount = MeasuredTotal * plant_health.count
        /\ plant_health.health_text = HealthLevel(MeasuredTotal, MeasuredCount).health_text
        /\ (readings = <<AhtSlot(23, 55)>>
               => plant_health.total = 100 * plant_health.count
                  /\ plant_health.health_text = "Excellent")

----------------------------------------------------------------------------
(* plant_monitor.c.  st is g_state; a mean is kept as [sum, n].            *)

(* plant_monitor_get_default_config: the addresses and the thresholds *)
DefaultConfig ==
    [aht10_addr_1 |-> AHT10_I2C_ADDR, aht10_addr_2 |-> PLANT_MONITOR_AHT10_ADDR_2,
     temp_min |-> 10, temp_max |-> 35, temp_optimal_min |-> 18, temp_optimal_max |-> 28,
     humidity_min |-> 30, humidity_max |-> 80,
     humidity_optimal_min |-> 40, humidity_optimal_max |-> 70]

i2c_init(c, st) ==
    IF st.i2c_initialized THEN [c |-> c, st |-> st, ret |-> ESP_OK]
    ELSE [c |-> [c EXCEPT !.drv.i2c_installed = TRUE],
          st |-> [st EXCEPT !.i2c_initialized = TRUE], ret |-> ESP_OK]

aht10_init_sensor(c, sensor) ==
    LET dev == Aht10At(sensor.addr)
        t1 == i2c_master_cmd_begin(c, dev,
                  <<"i2c_write", sensor.addr, <<AHT10_CMD_SOFT_RESET>>>>)
    IN IF t1.ret # ESP_OK THEN [c |-> t1.c, sensor |-> sensor, ret |-> t1.ret]
       ELSE LET t2 == i2c_master_cmd_begin(vTaskDelay(t1.c, 20), dev,
                          <<"i2c_write", sensor.addr, <<AHT10_CMD_INIT, 8, 0>>>>)
            IN IF t2.ret # ESP_OK THEN [c |-> t2.c, sensor |-> sensor, ret |-> t2.ret]
               ELSE [c |-> vTaskDelay([t2.c EXCEPT !.env[dev].cal =
                                                     t2.c.env[dev].calibratable], 10),
                     sensor |-> [sensor EXCEPT !.initialized = TRUE],
                     ret |-> ESP_OK]

(* lines 202-225: aht10_read_sensor once the 6 bytes sensor_data are read *)
aht10_read_sensor_reply(sensor, sensor_data) ==
    IF BitSet(sensor_data[1], 128)
    THEN [sensor |-> [sensor EXCEPT !.valid = FALSE], ret |-> ESP_ERR_INVALID_STATE]
    ELSE LET humidity_raw == (sensor_data[2] % 16) * 65536
                             + sensor_data[3] * 256 + sensor_data[4]
             temp_raw == (sensor_data[4] % 16) * 65536
                         + sensor_data[5] * 256 + sensor_data[6]
         IN [sensor |-> [sensor EXCEPT
                           !.humidity = humidity_raw * 25,
                           !.temperature = temp_raw * 25 - 50 * TempUnit,
                           !.valid = TRUE],
             ret |-> ESP_OK]

aht10_read_sensor(c, sensor) ==
    IF ~sensor.initialized THEN [c |-> c, sensor |-> sensor, ret |-> ESP_ERR_INVALID_STATE]
    ELSE LET dev == Aht10At(sensor.addr)
             t1 == i2c_master_cmd_begin(c, dev,
                       <<"i2c_write", sensor.addr, <<AHT10_CMD_MEASURE, 51, 0>>>>)
         IN IF t1.ret # ESP_OK
            THEN [c |-> t1.c, sensor |-> [sensor EXCEPT !.valid = FALSE], ret |-> t1.ret]
            ELSE LET t2 == i2c_master_cmd_begin(vTaskDelay(t1.c, 80), dev,
                               <<"i2c_read", sensor.addr, 6>>)
                 IN IF t2.ret # ESP_OK
                    THEN [c |-> t2.c, sensor |-> [sensor EXCEPT !.valid = FALSE],
                          ret |-> t2.ret]
                    ELSE [c |-> t2.c]
                             @@ aht10_read_sensor_reply(sensor, Aht10Reply(c.env[dev]))

(* adc1_get_raw: the raw value, or -1 stored into a uint16_t *)
adc1_get_raw(c, channel) ==
    IF c.env[channel].code = ESP_OK THEN c.env[channel].value ELSE 65535

plant_monitor_init(c, st, config) ==
    LET i == i2c_init(c, [st EXCEPT !.config = config])
        st1 == [i.st EXCEPT
                  !.sensor1.addr = config.aht10_addr_1, !.sensor1.initialized = FALSE,
                  !.sensor1.valid = FALSE,
                  !.sensor2.addr = config.aht10_addr_2, !.sensor2.initialized = FALSE,
                  !.sensor2.valid = FALSE]
        s1 == aht10_init_sensor(i.c, st1.sensor1)
        s2 == aht10_init_sensor(s1.c, st1.sensor2)
    IN [c |-> s2.c,
        st |-> [st1 EXCEPT !.sensor1 = s1.sensor, !.sensor2 = s2.sensor],
        ret |-> ESP_OK]

plant_monitor_deinit(c, st) ==
    [c |-> IF st.i2c_initialized THEN [c EXCEPT !.drv.i2c_installed = FALSE] ELSE c,
     st |-> StateZero,
     ret |-> ESP_OK]

(* plant_monitor_read_sensors with the means always taken over two sensors *)
plant_monitor_read_sensors_mean_of_two(c, st) ==
    LET r1 == aht10_read_sensor(c, st.sensor1)
        r2 == aht10_read_sensor(r1.c, st.sensor2)
        ok1 == r1.ret = ESP_OK /\ r1.sensor.valid
        ok2 == r2.ret = ESP_OK /\ r2.sensor.valid
        temperature_1 == IF ok1 THEN r1.sensor.temperature ELSE 0
        humidity_1 == IF ok1 THEN r1.sensor.humidity ELSE 0
        temperature_2 == IF ok2 THEN r2.sensor.temperature ELSE 0
        humidity_2 == IF ok2 THEN r2.sensor.humidity ELSE 0
        valid_sensors == (IF r1.sensor.valid THEN 1 ELSE 0)
                         + (IF r2.sensor.valid THEN 1 ELSE 0)
        temp_sum == (IF r1.sensor.valid THEN temperature_1 ELSE 0)
                    + (IF r2.sensor.valid THEN temperature_2 ELSE 0)
        hum_sum == (IF r1.sensor.valid THEN humidity_1 ELSE 0)
                   + (IF r2.sensor.valid THEN humidity_2 ELSE 0)
        n == 2
    IN [c |-> r2.c,
        st |-> [st EXCEPT !.sensor1 = r1.sensor, !.sensor2 = r2.sensor],
        data |-> [temperature_1 |-> temperature_1, humidity_1 |-> humidity_1,
                  temperature_2 |-> temperature_2, humidity_2 |-> humidity_2,
                  temperature_avg |-> [sum |-> temp_sum, n |-> n],
                  humidity_avg |-> [sum |-> hum_sum, n |-> n],
                  soil_moisture |-> adc1_get_raw(c, "soil"),
                  light_level |-> adc1_get_raw(c, "light"),
                  data_sent |-> FALSE],
        ret |-> ESP_OK]

plant_monitor_read_sensors(c, st) ==
    LET r1 == aht10_read_sensor(c, st.sensor1)
        r2 == aht10_read_sensor(r1.c, st.sensor2)
        ok1 == r1.ret = ESP_OK /\ r1.sensor.valid
        ok2 == r2.ret = ESP_OK /\ r2.sensor.valid
        temperature_1 == IF ok1 THEN r1.sensor.temperature ELSE 0
        humidity_1 == IF ok1 THEN r1.sensor.humidity ELSE 0
        temperature_2 == IF ok2 THEN r2.sensor.temperature ELSE 0
        humidity_2 == IF ok2 THEN r2.sensor.humidity ELSE 0
        valid_sensors == (IF r1.sensor.valid THEN 1 ELSE 0)
                         + (IF r2.sensor.valid THEN 1 ELSE 0)
        temp_sum == (IF r1.sensor.valid THEN temperature_1 ELSE 0)
                    + (IF r2.sensor.valid THEN temperature_2 ELSE 0)
        hum_sum == (IF r1.sensor.valid THEN humidity_1 ELSE 0)
                   + (IF r2.sensor.valid THEN humidity_2 ELSE 0)
        n == IF valid_sensors > 0 THEN valid_sensors ELSE 1
    IN [c |-> r2.c,
        st |-> [st EXCEPT !.sensor1 = r1.sensor, !.sensor2 = r2.sensor],
        data |-> [temperature_1 |-> temperature_1, humidity_1 |-> humidity_1,
                  temperature_2 |-> temperature_2, humidity_2 |-> humidity_2,
                  temperature_avg |-> [sum |-> temp_sum, n |-> n],
                  humidity_avg |-> [sum |-> hum_sum, n |-> n],
                  soil_moisture |-> adc1_get_raw(c, "soil"),
                  light_level |-> adc1_get_raw(c, "light"),
                  data_sent |-> FALSE],
        ret |-> ESP_OK]

(* lines 713-731: the sensors counted as working are the initialised ones *)
plant_monitor_get_status(st) ==
    [ret |-> ESP_OK,
     sensors_working |-> (IF st.sensor1.initialized THEN 1 ELSE 0)
                         + (IF st.sensor2.initialized THEN 1 ELSE 0)]


(* the levels with Good starting at 80 *)
PlantHealthLevel_good_from_80(total, count) ==
    IF total >= 90 * count
    THEN [total |-> total, count |-> count, health_level |-> "PLANT_HEALTH_EXCELLENT",
          health_text |-> "Excellent",
          recommendation |-> "Perfect conditions! Keep it up."]
    ELSE IF total >= 80 * count
    THEN [total |-> total, count |-> count, health_level |-> "PLANT_HEALTH_GOOD",
          health_text |-> "Good",
          recommendation |-> "Good conditions. Monitor regularly."]
    ELSE IF total >= 50 * count
    THEN [total |-> total, count |-> count, health_level |-> "PLANT_HEALTH_FAIR",
          health_text |-> "Fair",
          recommendation |-> "Conditions are acceptable but could be better."]
    ELSE IF total >= 30 * count
    THEN [total |-> total, count |-> count, health_level |-> "PLANT_HEALTH_POOR",
          health_text |-> "Poor",
          recommendation |->
              "Conditions need improvement. Check temperature and humidity."]
    ELSE [total |-> total, count |-> count, health_level |-> "PLANT_HEALTH_CRITICAL",
          health_text |-> "Critical",
          recommendation |-> "Immediate attention required! Check all conditions."]

(* lines 566-591: the level of the score total / count *)
PlantHealthLevel(total, count) ==
    IF total >= 90 * count
    THEN [total |-> total, count |-> count, health_level |-> "PLANT_HEALTH_EXCELLENT",
          health_text |-> "Excellent",
          recommendation |-> "Perfect conditions! Keep it up."]
    ELSE IF total >= 70 * count
    THEN [total |-> total, count |-> count, health_level |-> "PLANT_HEALTH_GOOD",
          health_text |-> "Good",
          recommendation |-> "Good conditions. Monitor regularly."]
    ELSE IF total >= 50 * count
    THEN [total |-> total, count |-> count, health_level |-> "PLANT_HEALTH_FAIR",
          health_text |-> "Fair",
          recommendation |-> "Conditions are acceptable but could be better."]
    ELSE IF total >= 30 * count
    THEN [total |-> total, count |-> count, health_level |-> "PLANT_HEALTH_POOR",
          health_text |-> "Poor",
          recommendation |->
              "Conditions need improvement. Check temperature and humidity."]
    ELSE [total |-> total, count |-> count, health_level |-> "PLANT_HEALTH_CRITICAL",
          health_text |-> "Critical",
          recommendation |-> "Immediate attention required! Check all conditions."]

(* the band score with the ends of the optimal band left out *)
BandScore_exclusive(avg, unit, optimal_min, optimal_max, min, max) ==
    IF avg.sum > optimal_min * unit * avg.n /\ avg.sum < optimal_max * unit * avg.n
    THEN 100
    ELSE IF avg.sum >= min * unit * avg.n /\ avg.sum <= max * unit * avg.n THEN 50
    ELSE 0

(* the band score with no score below that of the acceptable band *)
BandScore_no_zero(avg, unit, optimal_min, optimal_max, min, max) ==
    IF avg.sum >= optimal_min * unit * avg.n /\ avg.sum <= optimal_max * unit * avg.n
    THEN 100
    ELSE 50

(* the band score with 40 for a mean up to 5 outside the acceptable band *)
BandScore_near_miss(avg, unit, optimal_min, optimal_max, min, max) ==
    IF avg.sum >= optimal_min * unit * avg.n /\ avg.sum <= optimal_max * unit * avg.n
    THEN 100
    ELSE IF avg.sum >= min * unit * avg.n /\ avg.sum <= max * unit * avg.n THEN 50
    ELSE IF avg.sum >= (min - 5) * unit * avg.n /\ avg.sum <= (max + 5) * unit * avg.n
    THEN 40
    ELSE 0

(* the score of a mean against an optimal and an acceptable band *)
BandScore(avg, unit, optimal_min, optimal_max, min, max) ==
    IF avg.sum >= optimal_min * unit * avg.n /\ avg.sum <= optimal_max * unit * avg.n
    THEN 100
    ELSE IF avg.sum >= min * unit * avg.n /\ avg.sum <= max * unit * avg.n THEN 50
    ELSE 0

(* plant_monitor_calculate_health with the sum of the two scores not halved *)
plant_monitor_calculate_health_not_halved(st, data) ==
    [ret |-> ESP_OK,
     health |-> PlantHealthLevel(
                    BandScore(data.temperature_avg, TempUnit,
                              st.config.temp_optimal_min, st.config.temp_optimal_max,
                              st.config.temp_min, st.config.temp_max)
                    + BandScore(data.humidity_avg, HumUnit,
                                st.config.humidity_optimal_min,
                                st.config.humidity_optimal_max,
                                st.config.humidity_min, st.config.humidity_max),
                    1)]

plant_monitor_calculate_health(st, data) ==
    LET temp_score == BandScore(data.temperature_avg, TempUnit,
                                st.config.temp_optimal_min, st.config.temp_optimal_max,
                                st.config.temp_min, st.config.temp_max)
        hum_score == BandScore(data.humidity_avg, HumUnit,
                               st.config.humidity_optimal_min,
                               st.config.humidity_optimal_max,
                               st.config.humidity_min, st.config.humidity_max)
    IN [ret |-> ESP_OK, health |-> PlantHealthLevel(temp_score + hum_score, 2)]

(* lines 678-711: a probe of each of the addresses 0..127; no device found *)
(* is reported as an error                                                 *)
plant_monitor_scan_i2c_devices(c, w) ==
    IF Cardinality({i \in 0..127 : scan_probe(c, i, w) = ESP_OK}) = 0
    THEN ESP_ERR_NOT_FOUND
    ELSE ESP_OK

----------------------------------------------------------------------------
(* SpecMonitor: the two poll loops of the repository, each on its own      *)
(* board: main.cpp's monitoring_task after app_main, and plant_monitor.c's *)
(* cycle of read_sensors and calculate_health after plant_monitor_init.    *)
(* Devices fail and recover between the cycles.                            *)

(* app_main: sensor_config *)
AppMainConfig ==
    <<Desc(SENSOR_TYPE_AHT10, TRUE),
      [Desc(SENSOR_TYPE_AHT10, TRUE) EXCEPT !.address = PLANT_MONITOR_AHT10_ADDR_2],
      Desc(SENSOR_TYPE_DS18B20, TRUE), Desc(SENSOR_TYPE_GY302, TRUE),
      Desc(SENSOR_TYPE_SOIL_MOISTURE, TRUE), Desc(SENSOR_TYPE_LIGHT, TRUE)>>

(* main.cpp: sensor_readings[8] *)
ReadingSlots == 8

MonitorWorlds ==
    [aht : {AhtOk, AhtNack, AhtBusy}, aht2 : {AhtOk, AhtNack},
     ds : {DsOk, DsDev(<<FALSE>>, SpCrcZero)},
     gy : {GyOk, [GyOk EXCEPT !.script = <<ESP_FAIL>>]},
     soil : SoilDevs, light : LightDevs]

NoDisplay ==
    [temperature |-> 0, humidity |-> 0, soil_moisture |-> 0, light_level |-> 0, lux |-> 0]

(* app_main up to xTaskCreate: init, scan, get_status *)
app_main_status(i, s, w) ==
    [si |-> i.si, c |-> s.c,
     device_count |-> sensor_interface_scan_i2c(i.si, i.c, w),
     working_sensors |-> s.working_sensors, total_sensors |-> s.total_sensors]

app_main_initialised(i, w) ==
    app_main_status(i, sensor_interface_get_status(i.si, i.c, w), w)

app_main(w) ==
    app_main_initialised(sensor_interface_init(Boot.si, Boot.c, AppMainConfig), w)

(* the board running main.cpp, app_main having returned r *)
MainBooted(r) ==
    /\ app_config = AppMainConfig
    /\ g_config = r.si.config
    /\ g_initialized = r.si.initialized
    /\ drv = r.c.drv
    /\ op = <<"app_main">>
    /\ readings = [i \in 1..ReadingSlots |-> Unwritten]
    /\ g_state = StateZero

(* the board running plant_monitor.c, plant_monitor_init having returned r *)
PlantMonitorBooted(r) ==
    /\ app_config = <<>>
    /\ g_config = <<>>
    /\ g_initialized = FALSE
    /\ drv = r.c.drv
    /\ op = <<"plant_monitor_init">>
    /\ readings = <<>>
    /\ g_state = r.st

InitMonitor ==
    /\ world \in MonitorWorlds
    /\ \/ MainBooted(app_main(world))
       \/ PlantMonitorBooted(plant_monitor_init([Boot.c EXCEPT !.env = world],
                                                StateZero, DefaultConfig))
    /\ bus = <<>>
    /\ ret = ESP_OK
    /\ out = NoOut
    /\ plant_health = NoHealth

(* lines 182-202: the first valid reading among the first reading_count *)
display_data(batch, reading_count) ==
    LET V == {i \in 1..reading_count : batch[i].valid}
    IN IF V = {} THEN NoDisplay
       ELSE LET i == CHOOSE j \in V : \A k \in V : j <= k
            IN [temperature |-> batch[i].temperature, humidity |-> batch[i].humidity,
                soil_moisture |-> batch[i].soil_moisture,
                light_level |-> batch[i].light_level, lux |-> batch[i].lux]

(* one iteration of the loop of monitoring_task *)
(* lines 170-202: the iteration once read_all has returned r and, for a   *)
(* reading_count >= 0, calculate_plant_health has returned h              *)
MonitoringCycleScored(r, reading_count, h) ==
    /\ drv' = r.c.drv
    /\ bus' = r.c.bus
    /\ readings' = r.readings
    /\ op' = <<"monitoring_task", reading_count>>
    /\ IF reading_count < 0
       THEN UNCHANGED <<ret, plant_health, out>>
       ELSE /\ ret' = h.ret
            /\ plant_health' = h.health
            /\ out' = display_data(r.readings, reading_count)
    /\ UNCHANGED <<world, app_config, g_config, g_initialized, g_state>>

MonitoringCycleRead(r) ==
    MonitoringCycleScored(r, r.ret,
                          calculate_plant_health(r.readings, r.ret, plant_health))

MonitoringCycle ==
    /\ g_initialized
    /\ MonitoringCycleRead(
           sensor_interface_read_all(Si, Ctx, readings, ReadingSlots, world))

(* plant_monitor_read_sensors followed by plant_monitor_calculate_health *)
PlantMonitorCycleScored(r, h) ==
    /\ drv' = r.c.drv
    /\ bus' = r.c.bus
    /\ g_state' = r.st
    /\ op' = <<"plant_monitor_read_sensors">>
    /\ ret' = h.ret
    /\ out' = [data |-> r.data, health |-> h.health, read_sensors |-> r.ret]
    /\ UNCHANGED <<world, app_config, g_config, g_initialized, readings, plant_health>>

PlantMonitorCycleRead(r) ==
    PlantMonitorCycleScored(r, plant_monitor_calculate_health(r.st, r.data))

PlantMonitorCycle ==
    /\ g_state.i2c_initialized
    /\ PlantMonitorCycleRead(plant_monitor_read_sensors(Ctx, g_state))

PlantMonitorDeinit ==
    /\ g_state.i2c_initialized
    /\ LET r == plant_monitor_deinit(Ctx, g_state)
       IN /\ drv' = r.c.drv
          /\ g_state' = r.st
          /\ ret' = r.ret
    /\ bus' = <<>>
    /\ op' = <<"plant_monitor_deinit">>
    /\ out' = NoOut
    /\ UNCHANGED <<world, app_config, g_config, g_initialized, readings, plant_health>>

PlantMonitorInit ==
    /\ ~g_initialized
    /\ ~g_state.i2c_initialized
    /\ LET r == plant_monitor_init(Ctx, g_state, DefaultConfig)
       IN /\ drv' = r.c.drv
          /\ bus' = r.c.bus
          /\ g_state' = r.st
          /\ ret' = r.ret
    /\ op' = <<"plant_monitor_init">>
    /\ out' = NoOut
    /\ UNCHANGED <<world, app_config, g_config, g_initialized, readings, plant_health>>

PlantMonitorGetStatus ==
    /\ ~g_initialized
    /\ ret' = plant_monitor_get_status(g_state).ret
    /\ out' = [sensors_working |-> plant_monitor_get_status(g_state).sensors_working]
    /\ op' = <<"plant_monitor_get_status">>
    /\ bus' = <<>>
    /\ UNCHANGED <<world, app_config, g_config, g_initialized, drv, readings,
                   plant_health, g_state>>

PlantMonitorScanI2cDevices ==
    /\ ~g_initialized
    /\ ret' = plant_monitor_scan_i2c_devices(Ctx, world)
    /\ op' = <<"plant_monitor_scan_i2c_devices">>
    /\ bus' = <<>>
    /\ out' = NoOut
    /\ UNCHANGED <<world, app_config, g_config, g_initialized, drv, readings,
                   plant_health, g_state>>

(* devices fail or recover *)
DevicesChange ==
    /\ world' \in MonitorWorlds
    /\ op' = <<"devices_change">>
    /\ bus' = <<>>
    /\ UNCHANGED <<app_config, g_config, g_initialized, drv, ret, readings, out,
                   plant_health, g_state>>

NextMonitor ==
    \/ MonitoringCycle
    \/ PlantMonitorCycle
    \/ PlantMonitorDeinit
    \/ PlantMonitorInit
    \/ PlantMonitorScanI2cDevices
    \/ PlantMonitorGetStatus
    \/ DevicesChange

SpecMonitor == InitMonitor /\ [][NextMonitor]_vars

(* C10: whenever no sensor contributed a valid reading in a poll cycle,    *)
(* the health assessment of that cycle has score 0 and the Unknown status  *)
(* with a no-sensor-data message and is never Critical: in the monitoring  *)
(* loop, and in plant_monitor_read_sensors followed by                     *)
(* plant_monitor_calculate_health when both AHT10 reads fail.              *)
C10_NoDataIsUnknown ==
    /\ (op[1] = "monitoring_task" /\ ValidSlots = {}) =>
          /\ plant_health.total = 0
          /\ plant_health.health_text = "Unknown"
          /\ plant_health.recommendation = "No sensor data available"
    /\ (op[1] = "plant_monitor_read_sensors"
        /\ ~g_state.sensor1.valid /\ ~g_state.sensor2.valid) =>
          /\ out.health.total = 0
          /\ out.health.health_text = "Unknown"
          /\ out.health.health_text # "Critical"

(* the AHT10 of a sensor of the monitor answers a read: it was initialised, *)
(* acknowledges and is not busy                                            *)
ReadSucceeds(sensor) ==
    /\ sensor.initialized
    /\ world[Aht10At(sensor.addr)].script = <<>>
    /\ ~world[Aht10At(sensor.addr)].busy

(* C25: plant_monitor_init and plant_monitor_read_sensors return ESP_OK     *)
(* even when neither AHT10 responds; read_sensors reports data_sent false, *)
(* 0 for the temperature and humidity of each sensor whose read failed and *)
(* as temperature_avg and humidity_avg the means over exactly the sensors  *)
(* whose read succeeded (0 when none did); plant_monitor_get_status        *)
(* reports between 0 and 2 working sensors.                                *)
C25_DegradedReadSucceeds ==
    /\ op = <<"plant_monitor_init">> => ret = ESP_OK
    /\ op = <<"plant_monitor_read_sensors">> =>
          LET ok1 == ReadSucceeds(g_state.sensor1)
              ok2 == ReadSucceeds(g_state.sensor2)
              n == (IF ok1 THEN 1 ELSE 0) + (IF ok2 THEN 1 ELSE 0)
              temp_sum == (IF ok1 THEN g_state.sensor1.temperature ELSE 0)
                          + (IF ok2 THEN g_state.sensor2.temperature ELSE 0)
              hum_sum == (IF ok1 THEN g_state.sensor1.humidity ELSE 0)
                         + (IF ok2 THEN g_state.sensor2.humidity ELSE 0)
          IN /\ out.read_sensors = ESP_OK
             /\ ~out.data.data_sent
             /\ ~ok1 => (out.data.temperature_1 = 0 /\ out.data.humidity_1 = 0)
             /\ ~ok2 => (out.data.temperature_2 = 0 /\ out.data.humidity_2 = 0)
             /\ IF n = 0
                THEN out.data.temperature_avg.sum = 0 /\ out.data.humidity_avg.sum = 0
                ELSE /\ out.data.temperature_avg.sum * n
                          = temp_sum * out.data.temperature_avg.n
                     /\ out.data.humidity_avg.sum * n
                          = hum_sum * out.data.humidity_avg.n
    /\ op = <<"plant_monitor_get_status">> =>
          (ret = ESP_OK /\ out.sensors_working \in 0..2)

(* the sensors have been read after an initialisation that neither AHT10 answered *)
C25_Witness ==
    /\ op = <<"plant_monitor_read_sensors">>
    /\ ~g_state.sensor1.initialized /\ ~g_state.sensor2.initialized
    /\ g_state.i2c_initialized
    /\ out.read_sensors = ESP_OK
    /\ out.data.temperature_avg.sum = 0

(* C23: plant_monitor_scan_i2c_devices returns ESP_OK after scanning the   *)
(* bus, even when no device answers at any address.                        *)
C23_ScanSucceeds ==
    op = <<"plant_monitor_scan_i2c_devices">> => ret = ESP_OK

----------------------------------------------------------------------------
(* SpecReply: aht10_read's handling of the 6 bytes read from the device,   *)
(* applied to the replies of a range of devices, and then the monitor's    *)
(* aht10_read_sensor applied to the same bytes                             *)

ReplyDevs ==
    {[AhtOk EXCEPT !.busy = b, !.cal = k, !.other = o, !.data = <<b1, b2, b3, b4, b5>>] :
         b \in BOOLEAN, k \in BOOLEAN, o \in {0, 16},
         b1 \in {0, 128, 255}, b2 \in {0, 255}, b3 \in {0, 15, 240, 255},
         b4 \in {0, 128, 255}, b5 \in {0, 255}}

InitReply ==
    /\ app_config = DriverApp
    /\ g_config = <<>>
    /\ g_initialized = FALSE
    /\ world \in [aht : ReplyDevs, aht2 : {AhtOk}, ds : {DsOk}, gy : {GyOk},
                  soil : {SoilOk}, light : {LightOk}]
    /\ drv = i2c_master_init(Boot.c).c.drv
    /\ bus = <<>>
    /\ op = <<"i2c_read">>
    /\ ret = ESP_OK
    /\ readings = <<>>
    /\ out = NoOut
    /\ plant_health = NoHealth
    /\ g_state = StateZero

Aht10ReadReply ==
    /\ op = <<"i2c_read">>
    /\ op' = <<"aht10_read", "reply">>
    /\ ret' = aht10_read_reply(Aht10Reply(world.aht)).ret
    /\ readings' = <<aht10_read_reply(Aht10Reply(world.aht)).reading>>
    /\ UNCHANGED <<world, app_config, g_config, g_initialized, drv, bus, out,
                   plant_health, g_state>>

(* the monitor's aht10_read_sensor given the same 6 bytes *)
Aht10ReadSensorReply ==
    /\ op = <<"aht10_read", "reply">>
    /\ op' = <<"aht10_read_sensor", "reply">>
    /\ LET r == aht10_read_sensor_reply(
                    [Aht10SensorZero EXCEPT !.addr = AHT10_I2C_ADDR, !.initialized = TRUE],
                    Aht10Reply(world.aht))
       IN /\ ret' = r.ret
          /\ g_state' = [g_state EXCEPT !.sensor1 = r.sensor]
    /\ UNCHANGED <<world, app_config, g_config, g_initialized, drv, bus, readings, out,
                   plant_health>>

NextReply == Aht10ReadReply \/ Aht10ReadSensorReply

SpecReply == InitReply /\ [][NextReply]_vars

AfterReply == op = <<"aht10_read", "reply">>

(* the two 20-bit fields of a reply, as the data sheet lays them out *)
ReplyHumidityRaw(data) == data[2] * 4096 + data[3] * 16 + (data[4] \div 16)
ReplyTemperatureRaw(data) == (data[4] % 16) * 65536 + data[5] * 256 + data[6]

(* C11: of a 6-byte reply, aht10_read tests bit 7 of byte 0 first: if set   *)
(* the reading is invalid with the busy error, whatever the calibration    *)
(* bit; otherwise, if bit 3 is clear, the reading is invalid with the      *)
(* not-calibrated error.  In neither case is a value reported as valid.    *)
C11_BusyThenCalibration ==
    AfterReply =>
        LET status == Aht10Reply(world.aht)[1]
        IN /\ BitSet(status, 128) =>
                 /\ ret = ESP_ERR_TIMEOUT
                 /\ readings[1].error = ESP_ERR_TIMEOUT
                 /\ ~readings[1].valid
           /\ (~BitSet(status, 128) /\ ~BitSet(status, 8)) =>
                 /\ ret = ESP_ERR_INVALID_STATE
                 /\ readings[1].error = ESP_ERR_INVALID_STATE
                 /\ ~readings[1].valid

(* a reply with the busy bit set and the calibration bit clear has been handled *)
C11_Witness ==
    /\ AfterReply
    /\ world.aht.busy /\ ~world.aht.cal
    /\ ret = ESP_ERR_TIMEOUT

(* C12: every reading aht10_read marks valid has its humidity in [0, 100]  *)
(* and its temperature in [-50, 150]; a reply whose decoded humidity or    *)
(* temperature is outside is answered with valid = false and an error.     *)
C12_ValidInRange ==
    AfterReply =>
        LET data == Aht10Reply(world.aht)
            humidity == ReplyHumidityRaw(data) * 25
            temperature == ReplyTemperatureRaw(data) * 25 - 50 * TempUnit
            inside == /\ 0 <= humidity /\ humidity <= 100 * HumUnit
                      /\ (0 - 50) * TempUnit <= temperature
                      /\ temperature <= 150 * TempUnit
        IN /\ readings[1].valid =>
                 /\ 0 <= readings[1].humidity
                 /\ readings[1].humidity <= 100 * HumUnit
                 /\ (0 - 50) * TempUnit <= readings[1].temperature
                 /\ readings[1].temperature <= 150 * TempUnit
           /\ ~inside => (~readings[1].valid /\ readings[1].error # ESP_OK
                          /\ ret # ESP_OK)

(* the largest reply a calibrated idle device can give has been read as valid *)
C12_Witness ==
    /\ AfterReply
    /\ world.aht.data = <<255, 255, 255, 255, 255>>
    /\ readings[1].valid
    /\ readings[1].humidity = 1048575 * 25
    /\ readings[1].temperature = 1048575 * 25 - 50 * TempUnit

(* C14: of a calibrated, idle reply aht10_read reports the humidity        *)
(* raw * 100 / 2^20 with raw = data[1]<<12 | data[2]<<4 | data[3]>>4 and   *)
(* the temperature raw * 200 / 2^20 - 50 with raw = (data[3]&0x0F)<<16 |   *)
(* data[4]<<8 | data[5]; raw humidity 0 with raw temperature 0x8000 reads  *)
(* as 0.0 % and -43.75 degrees.                                            *)
C14_Decode ==
    (AfterReply /\ ~world.aht.busy /\ world.aht.cal) =>
        LET data == Aht10Reply(world.aht)
            h == ReplyHumidityRaw(data)
            t == ReplyTemperatureRaw(data)
        IN /\ ret = ESP_OK /\ readings[1].valid
           /\ readings[1].humidity * (1048576 \div HumUnit) = h * 100
           /\ (readings[1].temperature + 50 * TempUnit) * (1048576 \div TempUnit) = t * 200
           /\ (h = 0 /\ t = 32768) =>
                 /\ readings[1].humidity = 0
                 /\ readings[1].temperature * 4 = (0 - 175) * TempUnit

(* the reply with raw humidity 0 and raw temperature 0x8000 has been decoded *)
C14_Witness ==
    /\ AfterReply /\ ~world.aht.busy /\ world.aht.cal
    /\ world.aht.data = <<0, 0, 0, 128, 0>>
    /\ readings[1].valid
    /\ readings[1].temperature * 4 = (0 - 175) * TempUnit

----------------------------------------------------------------------------
(* SpecScore: the two scorers applied to hand-made inputs, as the unit     *)
(* tests apply them: plant_monitor_calculate_health, after                 *)
(* plant_monitor_init with the default configuration, to the means in out, *)
(* and calculate_plant_health to a batch of one reading of the same values *)

(* the means scored: inside, outside and at the ends of every band *)
ScoreTemperatures ==
    {c * TempUnit : c \in {5, 8, 10, 17, 18, 25, 28, 30, 35, 36}}
        \cup {18 * TempUnit - 1, 28 * TempUnit + 1}
ScoreHumidities ==
    {c * HumUnit : c \in {10, 25, 30, 35, 40, 55, 70, 75, 80, 81}}
        \cup {30 * HumUnit - 1, 80 * HumUnit + 1}

InitScore ==
    /\ app_config = <<>>
    /\ g_config = <<>>
    /\ g_initialized = FALSE
    /\ world = WorldOk
    /\ drv = plant_monitor_init(Boot.c, StateZero, DefaultConfig).c.drv
    /\ g_state = plant_monitor_init(Boot.c, StateZero, DefaultConfig).st
    /\ bus = <<>>
    /\ op = <<"plant_monitor_init">>
    /\ ret = ESP_OK
    /\ \E t \in ScoreTemperatures :
       \E h \in ScoreHumidities :
       \E l \in {c * LuxUnit : c \in {50, 100, 999, 1000, 10000, 10001, 50000, 50001}} :
          /\ out = [data |-> [temperature_avg |-> [sum |-> t, n |-> 1],
                              humidity_avg |-> [sum |-> h, n |-> 1]],
                    health |-> NoHealth]
          /\ readings = <<[SlotInit EXCEPT !.temperature = t, !.humidity = h, !.lux = l,
                                           !.valid = TRUE]>>
    /\ plant_health = NoHealth

PlantMonitorCalculateHealth ==
    /\ out' = [out EXCEPT !.health = plant_monitor_calculate_health(g_state, out.data).health]
    /\ ret' = plant_monitor_calculate_health(g_state, out.data).ret
    /\ op' = <<"plant_monitor_calculate_health">>
    /\ UNCHANGED <<world, app_config, g_config, g_initialized, drv, bus, readings,
                   plant_health, g_state>>

NextScore ==
    \/ PlantMonitorCalculateHealth
    \/ CalculatePlantHealth(1)

SpecScore == InitScore /\ [][NextScore]_vars

(* plant_monitor_calculate_health has scored the means in out *)
Scored2 == out.health # NoHealth
(* calculate_plant_health has scored the one reading of the batch *)
Scored3 == plant_health # NoHealth

(* the means scored, in degrees and per cent, as fractions of the units *)
ScoredTemperature == out.data.temperature_avg.sum
ScoredHumidity == out.data.humidity_avg.sum

(* the score of a value v, in units of unit, against the bands of the claim *)
AxisScore(v, unit, optimal_min, optimal_max, min, max) ==
    IF optimal_min * unit <= v /\ v <= optimal_max * unit THEN 100
    ELSE IF min * unit <= v /\ v <= max * unit THEN 50
    ELSE 0

C18_Levels ==
    Scored2 =>
        LET total == out.health.total
            count == out.health.count
            level == out.health.health_level
        IN /\ level = "PLANT_HEALTH_EXCELLENT" <=> total >= 90 * count
           /\ level = "PLANT_HEALTH_GOOD" <=> (70 * count <= total /\ total < 90 * count)
           /\ level = "PLANT_HEALTH_FAIR" <=> (50 * count <= total /\ total < 70 * count)
           /\ level = "PLANT_HEALTH_POOR" <=> (30 * count <= total /\ total < 50 * count)
           /\ level = "PLANT_HEALTH_CRITICAL" <=> total < 30 * count
           /\ out.health.health_text =
                 (CASE level = "PLANT_HEALTH_EXCELLENT" -> "Excellent"
                    [] level = "PLANT_HEALTH_GOOD" -> "Good"
                    [] level = "PLANT_HEALTH_FAIR" -> "Fair"
                    [] level = "PLANT_HEALTH_POOR" -> "Poor"
                    [] level = "PLANT_HEALTH_CRITICAL" -> "Critical"
                    [] OTHER -> "none")
           /\ (ScoredTemperature = 25 * TempUnit /\ ScoredHumidity = 35 * HumUnit) =>
                 /\ 70 * count <= total /\ total < 90 * count
                 /\ level = "PLANT_HEALTH_GOOD"

(* 25 degrees and 35 % have been scored as Good *)
C18_Witness ==
    /\ Scored2
    /\ ScoredTemperature = 25 * TempUnit /\ ScoredHumidity = 35 * HumUnit
    /\ out.health.total = 150 /\ out.health.count = 2
    /\ out.health.health_text = "Good"

BusTransactions == {"i2c_write", "i2c_read", "ow_reset", "ow_write", "ow_read"}

(* C24: bus access is strictly sequential in the running system: one bus    *)
(* transaction at a time, each driver call complete before the next, and    *)
(* every caller obtaining the bus through a lock of the bus executor: in   *)
(* the operations a poll cycle of monitoring_task issues, every transaction *)
(* comes after a take of the lock that no give has followed.               *)
C24_BusLocked ==
    op[1] = "monitoring_task" =>
        \A k \in 1..Len(bus) :
            bus[k][1] \in BusTransactions =>
                \E j \in 1..(k - 1) :
                    /\ bus[j][1] = "lock_take"
                    /\ \A i \in (j + 1)..(k - 1) : bus[i][1] # "lock_give"

(* C26: reading an AHT10 that has not been initialised fails with           *)
(* ESP_ERR_INVALID_STATE without a bus transaction, in aht10_read as in     *)
(* the monitor's aht10_read_sensor.                                        *)
C26_UninitialisedReadIsInvalidState ==
    (op = <<"aht10_read">> /\ ~drv.aht10_initialized) =>
        /\ ret = ESP_ERR_INVALID_STATE
        /\ bus = <<>>
        /\ aht10_read_sensor(Ctx, Aht10SensorZero).ret = ESP_ERR_INVALID_STATE
        /\ aht10_read_sensor(Ctx, Aht10SensorZero).c.bus = <<>>

(* what aht10_read reports when the bus transaction of its measurement     *)
(* command times out, and when it is called before the initialisation      *)
BusTimeoutError ==
    aht10_read([Ctx EXCEPT !.drv.aht10_initialized = TRUE,
                           !.env.aht.script = <<ESP_ERR_TIMEOUT>>], Aht10Zero).reading.error
BeforeInitError == aht10_read([Ctx EXCEPT !.drv.aht10_initialized = FALSE], Aht10Zero).ret

(* C27: the error kinds are told apart in what aht10_read reports: the     *)
(* error of a reading rejected as busy differs from the error of a bus     *)
(* transaction that timed out, and the error of a reading rejected as not  *)
(* calibrated differs from the error of a call before the initialisation.  *)
C27_ErrorKindsDistinct ==
    AfterReply =>
        /\ world.aht.busy => readings[1].error # BusTimeoutError
        /\ (~world.aht.busy /\ ~world.aht.cal) => readings[1].error # BeforeInitError

(* C28: gy302_read decodes the big-endian raw count with a scale factor    *)
(* that depends on the resolution mode: in the high-resolution-2 modes     *)
(* (0x11, 0x21) a non-zero count is not divided by the 1.2 of the          *)
(* high-resolution modes (0x10, 0x20).                                     *)
Gy302ReadOk == op = <<"gy302_read">> /\ ret = ESP_OK

C28_ModeDependentScale ==
    (Gy302ReadOk /\ world.gy.raw > 0
        /\ drv.current_mode \in {GY302_MODE_CONT_H2, GY302_MODE_ONE_H2}) =>
            readings[1].lux * 12 # world.gy.raw * 10 * LuxUnit

(* C29: in the high-resolution modes gy302_read reports raw / 1.2 for      *)
(* every 16-bit count, as a valid reading between 0 and 65535 / 1.2; the   *)
(* count 0x2328 reads 7500 lux.  (The quotient is exact here; the C float  *)
(* is its single-precision rounding.)                                      *)
C29_HighResolutionScale ==
    (Gy302ReadOk /\ drv.current_mode \in {GY302_MODE_CONT_H, GY302_MODE_ONE_H}) =>
        /\ readings[1].valid
        /\ readings[1].error = ESP_OK
        /\ readings[1].lux * 12 = world.gy.raw * 10 * LuxUnit
        /\ readings[1].lux >= 0
        /\ readings[1].lux * 12 <= 65535 * 10 * LuxUnit
        /\ world.gy.raw = 9000 => readings[1].lux = 7500 * LuxUnit

C29_Witness ==
    /\ Gy302ReadOk
    /\ drv.current_mode = GY302_MODE_CONT_H
    /\ world.gy.raw = 9000
    /\ readings[1].valid
    /\ readings[1].lux = 7500 * LuxUnit

(* C30: on an initialised driver ds18b20_read issues reset, skip-ROM,      *)
(* convert-temperature, the conversion wait, reset, skip-ROM,              *)
(* read-scratchpad and nine byte reads, in this order; a reset that finds  *)
(* no presence pulse ends the call there, with an invalid reading that     *)
(* carries ESP_ERR_NOT_FOUND.                                              *)
ReadSequence ==
    <<<<"ow_reset", drv.onewire_pin>>, <<"ow_write", 204>>, <<"ow_write", 68>>,
      <<"delay_ms", 750>>,
      <<"ow_reset", drv.onewire_pin>>, <<"ow_write", 204>>, <<"ow_write", 190>>>>
        \o [i \in 1..9 |-> <<"ow_read">>]

PresenceAt(k) == Len(world.ds.presence) < k \/ world.ds.presence[k]

StoppedAt(k) ==
    /\ bus = SubSeq(ReadSequence, 1, k)
    /\ ret = ESP_ERR_NOT_FOUND
    /\ ~readings[1].valid
    /\ readings[1].error = ESP_ERR_NOT_FOUND

C30_ReadSequence ==
    (op = <<"ds18b20_read">> /\ drv.ds18b20_initialized) =>
        IF ~PresenceAt(1) THEN StoppedAt(1)
        ELSE IF ~PresenceAt(2) THEN StoppedAt(5)
        ELSE bus = ReadSequence /\ ret # ESP_ERR_NOT_FOUND

C30_Witness ==
    /\ op = <<"ds18b20_read">>
    /\ drv.ds18b20_initialized
    /\ PresenceAt(1) /\ ~PresenceAt(2)
    /\ StoppedAt(5)

----------------------------------------------------------------------------
(* SpecSettings: an application that sets and reads back the probe's       *)
(* resolution and the light sensor's measurement mode, on an installed     *)
(* I2C driver, while the two devices on the bench are exchanged            *)

ResolutionArgs == 8..13

DsSettingsBench ==
    {DsDev(presence, sp) : presence \in {<<>>, <<FALSE>>, <<TRUE, FALSE>>},
                           sp \in {SpGenuine, SpHot, SpCold}}

GySettingsBench ==
    {GyOk, [GyOk EXCEPT !.script = <<ESP_FAIL>>],
     [GyOk EXCEPT !.script = <<ESP_OK, ESP_ERR_TIMEOUT>>],
     [GyOk EXCEPT !.script = <<ESP_OK, ESP_OK, ESP_ERR_TIMEOUT>>]}

Gy302Modes == {GY302_MODE_CONT_H, GY302_MODE_CONT_H2, GY302_MODE_CONT_L,
               GY302_MODE_ONE_H, GY302_MODE_ONE_H2, GY302_MODE_ONE_L}

InitSettings ==
    /\ app_config = DriverApp
    /\ g_config = <<>>
    /\ g_initialized = FALSE
    /\ world \in [aht : {AhtOk}, aht2 : {AhtOk}, ds : DsSettingsBench,
                  gy : GySettingsBench, soil : {SoilOk}, light : {LightOk}]
    /\ drv = i2c_master_init(Boot.c).c.drv
    /\ bus = <<>>
    /\ op = <<"i2c_master_init">>
    /\ ret = ESP_OK
    /\ readings = <<>>
    /\ out = NoOut
    /\ plant_health = NoHealth
    /\ g_state = StateZero

Ds18b20SetResolution(resolution) ==
    DriverCall(<<"ds18b20_set_resolution", resolution>>,
               ds18b20_set_resolution(Ctx, resolution), <<>>)

Ds18b20GetResolution ==
    LET r == ds18b20_get_resolution(Ctx, 0)
    IN DriverCall(<<"ds18b20_get_resolution">>, r, <<r.resolution>>)

Gy302SetMode(mode) ==
    DriverCall(<<"gy302_set_mode", mode>>, gy302_set_mode(Ctx, mode), <<>>)

Gy302GetMode ==
    LET r == gy302_get_mode(Ctx, 0)
    IN DriverCall(<<"gy302_get_mode">>, r, <<r.mode>>)

ExchangeSettings ==
    /\ \/ \E d \in DsSettingsBench : world' = [world EXCEPT !.ds = d]
       \/ \E d \in GySettingsBench : world' = [world EXCEPT !.gy = d]
    /\ op' = <<"exchange">>
    /\ bus' = <<>>
    /\ readings' = <<>>
    /\ UNCHANGED <<app_config, g_config, g_initialized, drv, ret, out, plant_health, g_state>>

NextSettings ==
    \/ Ds18b20Init
    \/ \E resolution \in ResolutionArgs : Ds18b20SetResolution(resolution)
    \/ Ds18b20GetResolution
    \/ Ds18b20Deinit
    \/ \E mode \in Gy302Modes : Gy302Init(mode)
    \/ Gy302Read
    \/ \E mode \in Gy302Modes : Gy302SetMode(mode)
    \/ Gy302GetMode
    \/ Gy302Deinit
    \/ ExchangeSettings

SpecSettings == InitSettings /\ [][NextSettings]_vars

----------------------------------------------------------------------------
(* Properties of the settings calls, checked under SpecSettings *)

SetSequence(resolution) ==
    <<<<"ow_reset", drv.onewire_pin>>, <<"ow_write", 204>>, <<"ow_write", 78>>,
      <<"ow_write", 0>>, <<"ow_write", 0>>, <<"ow_write", (resolution - 9) * 32>>,
      <<"ow_reset", drv.onewire_pin>>, <<"ow_write", 204>>, <<"ow_write", 72>>,
      <<"delay_ms", 10>>>>

(* C31: ds18b20_set_resolution(r) with r outside 9..12 returns             *)
(* ESP_ERR_INVALID_ARG without one-wire traffic; with r in 9..12, an       *)
(* initialised driver and a device that answers both resets it issues      *)
(* reset, skip-ROM, write-scratchpad, TH, TL, the configuration byte       *)
(* (r - 9) << 5, reset, skip-ROM, copy-scratchpad and the wait for the     *)
(* copy, in this order, and returns ESP_OK.                                *)
C31_SetResolutionSequence ==
    (Len(op) = 2 /\ op[1] = "ds18b20_set_resolution") =>
        IF op[2] \notin 9..12
        THEN ret = ESP_ERR_INVALID_ARG /\ bus = <<>>
        ELSE (drv.ds18b20_initialized /\ PresenceAt(1) /\ PresenceAt(2)) =>
                 /\ ret = ESP_OK
                 /\ bus = SetSequence(op[2])
                 /\ world.ds.scratchpad[5] = (op[2] - 9) * 32

C31_Witness ==
    /\ op = <<"ds18b20_set_resolution", 11>>
    /\ drv.ds18b20_initialized
    /\ ret = ESP_OK
    /\ bus = SetSequence(11)
    /\ bus[6] = <<"ow_write", 64>>

(* C37: a ds18b20_get_resolution that returns ESP_OK directly after a      *)
(* ds18b20_set_resolution(r) that returned ESP_OK, r in 9..12, stores r,   *)
(* whatever temperature the scratchpad holds.                              *)
C37_ResolutionRoundTrip ==
    [][(/\ Len(op) = 2 /\ op[1] = "ds18b20_set_resolution" /\ ret = ESP_OK
        /\ op' = <<"ds18b20_get_resolution">> /\ ret' = ESP_OK)
           => readings'[1] = op[2]]_vars

GyWrite(cmd) == <<"i2c_write", drv.i2c_address, <<cmd>>>>

(* the first of the coming n transactions that the light sensor fails, 0   *)
(* when it acknowledges all of them                                        *)
GyFailsAt(n) ==
    LET f == {k \in 1..n : k <= Len(world.gy.script) /\ world.gy.script[k] # ESP_OK}
    IN IF f = {} THEN 0 ELSE CHOOSE k \in f : \A j \in f : k <= j

InitOutcome ==
    LET writes == <<GyWrite(GY302_CMD_POWER_ON), GyWrite(GY302_CMD_RESET), GyWrite(op[2])>>
        k == GyFailsAt(3)
    IN IF k = 0
       THEN bus = writes /\ ret = ESP_OK /\ drv.gy302_initialized
       ELSE /\ bus = SubSeq(writes, 1, k)
            /\ ret = world.gy.script[k]
            /\ ~drv.gy302_initialized
            /\ gy302_read(Ctx, Gy302Zero).ret = ESP_ERR_INVALID_STATE
            /\ ~gy302_read(Ctx, Gy302Zero).reading.valid

(* C32: gy302_init on an uninitialised driver sends power-on, reset and    *)
(* the configured mode, in this order; the driver is initialised only when *)
(* all three are acknowledged, and a failed write ends the call with that  *)
(* error, nothing sent after it, the driver uninitialised and gy302_read   *)
(* failing with an invalid reading.                                        *)
C32_InitSequence ==
    [][(op'[1] = "gy302_init" /\ ~drv.gy302_initialized) => InitOutcome']_vars

C32_Witness ==
    /\ op = <<"gy302_init", GY302_MODE_ONE_H2>>
    /\ GyFailsAt(3) = 3
    /\ bus = <<GyWrite(1), GyWrite(7), GyWrite(33)>>
    /\ ret = ESP_ERR_TIMEOUT
    /\ ~drv.gy302_initialized

(* C33: gy302_read in a one-shot mode (0x20, 0x21, 0x23) sends the mode    *)
(* command again and waits, 180 ms in the two high-resolution modes and    *)
(* 24 ms in the low-resolution mode, before it reads 2 bytes, and a failed *)
(* command gives an invalid reading with no data read; in a continuous     *)
(* mode (0x10, 0x11, 0x13) it reads the 2 bytes and sends no command.      *)
GyRead2 == <<"i2c_read", drv.i2c_address, 2>>

C33_ReadTrigger ==
    (op = <<"gy302_read">> /\ drv.gy302_initialized) =>
        LET mode == drv.current_mode
        IN IF mode \in {GY302_MODE_ONE_H, GY302_MODE_ONE_H2, GY302_MODE_ONE_L}
           THEN IF GyFailsAt(1) = 1
                THEN /\ bus = <<GyWrite(mode)>>
                     /\ ret = world.gy.script[1]
                     /\ ~readings[1].valid
                ELSE bus = <<GyWrite(mode),
                             <<"delay_ms", IF mode = GY302_MODE_ONE_L THEN 24 ELSE 180>>,
                             GyRead2>>
           ELSE bus = <<GyRead2>>

C33_Witness ==
    /\ op = <<"gy302_read">>
    /\ drv.gy302_initialized
    /\ drv.current_mode = GY302_MODE_ONE_L
    /\ bus = <<GyWrite(35), <<"delay_ms", 24>>, GyRead2>>
    /\ readings[1].valid

(* C40: gy302_set_mode on an uninitialised driver returns                  *)
(* ESP_ERR_INVALID_STATE without bus traffic; on an initialised driver the *)
(* current mode becomes the new one when the write succeeds and stays what *)
(* it was, for gy302_get_mode too, when the write fails with its error.    *)
C40_SetModeFrame ==
    [][op'[1] = "gy302_set_mode" =>
          IF ~drv.gy302_initialized
          THEN ret' = ESP_ERR_INVALID_STATE /\ bus' = <<>> /\ drv' = drv
          ELSE /\ bus' = <<GyWrite(op'[2])>>
               /\ ret' = IF GyFailsAt(1) = 1 THEN world.gy.script[1] ELSE ESP_OK
               /\ drv'.current_mode = IF ret' = ESP_OK THEN op'[2] ELSE drv.current_mode
               /\ gy302_get_mode([Ctx EXCEPT !.drv = drv'], 0).mode = drv'.current_mode
               /\ \A f \in DOMAIN drv : f # "current_mode" => drv'[f] = drv[f]]_vars

C40_Witness ==
    /\ op = <<"gy302_set_mode", GY302_MODE_ONE_L>>
    /\ drv.gy302_initialized
    /\ drv.current_mode = GY302_MODE_CONT_H
    /\ ret = ESP_FAIL
    /\ bus = <<GyWrite(35)>>

----------------------------------------------------------------------------
(* Properties of the registry's use of the drivers, checked under Spec *)

(* C34: the I2C driver that sensor_interface_init installs stays installed *)
(* while the registry is initialised, whatever read_all, read_sensor,      *)
(* get_status and scan_i2c calls are made, the read of an enabled GY-302   *)
(* included.                                                               *)
C34_BusStaysInstalled == g_initialized => drv.i2c_installed

(* C38: when sensor_interface_read_all has returned none of the three      *)
(* drivers is initialised, after reads that succeeded and reads that       *)
(* failed alike (a probe read next, whatever probe is on the line, leaves  *)
(* its driver uninitialised too), and every reset of the batch went to the *)
(* pin and every GY-302 transfer to the address of the descriptor read.    *)
NoDriverInitialised ==
    /\ ~drv.aht10_initialized
    /\ ~drv.ds18b20_initialized
    /\ ~drv.gy302_initialized

C38_DriversReleased ==
    AfterReadAll =>
        /\ NoDriverInitialised
        /\ \A d \in DsBench :
               ~read_ds18b20_sensor([Ctx EXCEPT !.env.ds = d],
                                    Desc(SENSOR_TYPE_DS18B20, TRUE),
                                    SlotInit).c.drv.ds18b20_initialized
        /\ \A k \in 1..Len(bus) :
               /\ bus[k][1] = "ow_reset" =>
                      bus[k][2] = Desc(SENSOR_TYPE_DS18B20, TRUE).pin
               /\ (bus[k][1] = "i2c_read" /\ bus[k][3] = 2) =>
                      bus[k][2] = Desc(SENSOR_TYPE_GY302, TRUE).address

C38_Witness ==
    /\ RoomForAll
    /\ NoDriverInitialised
    /\ \E i, j \in 1..Len(g_config) :
           /\ g_config[i].type = SENSOR_TYPE_DS18B20 /\ readings[i].valid
           /\ g_config[j].type = SENSOR_TYPE_GY302 /\ g_config[j].enabled
           /\ ~readings[j].valid /\ readings[j].error = ESP_ERR_TIMEOUT

----------------------------------------------------------------------------
(* Properties of the poll loops and the two AHT10 decoders *)

(* C35: in a cycle of monitoring_task in which read_all produced a valid   *)
(* reading, the health assessment and the display data are those of all    *)
(* the valid readings of the batch, whatever slots they occupy.            *)
C35_EveryValidSlotConsidered ==
    (op[1] = "monitoring_task" /\ op[2] >= 1) =>
        /\ plant_health =
               calculate_plant_health(readings, ReadingSlots, plant_health).health
        /\ out = display_data(readings, ReadingSlots)

(* C36: given the same 6 bytes, not busy and calibrated, aht10_read_sensor *)
(* of the monitor stores the humidity and the temperature that aht10_read  *)
(* of the driver reports, and bytes that aht10_read rejects as not         *)
(* calibrated are not marked valid by the monitor.  Checked under          *)
(* SpecReply.                                                              *)
C36_DecodersAgree ==
    op = <<"aht10_read_sensor", "reply">> =>
        /\ (~world.aht.busy /\ world.aht.cal) =>
               /\ g_state.sensor1.humidity = readings[1].humidity
               /\ g_state.sensor1.temperature = readings[1].temperature
        /\ (~readings[1].valid /\ readings[1].error = ESP_ERR_INVALID_STATE) =>
               ~g_state.sensor1.valid

----------------------------------------------------------------------------
(* Reachability of the health levels, checked under SpecScore *)

(* the level plant_monitor_calculate_health gives the means t and h *)
LevelOf(t, h) ==
    plant_monitor_calculate_health(
        g_state, [temperature_avg |-> [sum |-> t, n |-> 1],
                  humidity_avg |-> [sum |-> h, n |-> 1]]).health.health_level

LevelReached(level) ==
    \E t \in ScoreTemperatures : \E h \in ScoreHumidities : LevelOf(t, h) = level

(* C39: with the default bands each of Excellent, Good, Fair, Poor and     *)
(* Critical is the level plant_monitor_calculate_health gives to some      *)
(* temperature and humidity means.                                         *)
C39_EveryLevelReached ==
    Scored2 =>
        \A level \in {"PLANT_HEALTH_EXCELLENT", "PLANT_HEALTH_GOOD", "PLANT_HEALTH_FAIR",
                       "PLANT_HEALTH_POOR", "PLANT_HEALTH_CRITICAL"} : LevelReached(level)

====
